---------------------------- MODULE Spec2Model ----------------------------
(***************************************************************************)
(* ulog_cpp: streaming ULog reader (Reader), message objects with their    *)
(* serializers and raw-bytes constructors, and the DataContainer / Writer  *)
(* handlers.  Bytes are naturals 0..255, buffers and texts are sequences   *)
(* of bytes, so that encoding and decoding are computed as the code does.  *)
(***************************************************************************)
EXTENDS Integers, Sequences, FiniteSets, TLC

VARIABLES
  scenario,     \* which log the caller feeds: [name, n]
  stream,       \* the byte stream of that log (chosen at construction)
  handlerKind,  \* which DataHandlerInterface the Reader was constructed with
  fed,          \* number of bytes of stream passed to readChunk so far
  firstChunk,   \* length of the first chunk passed to readChunk (0: none yet)
  lastChunk,    \* length of the chunk passed to the latest readChunk call
  reader,       \* the Reader object's fields
  handler,      \* the handler object's fields (DataContainer or Writer)
  calls,        \* the handler methods invoked so far, in order
  escaped,      \* the exception that left readChunk ("none" if none did)
  episodes,     \* history: how often corruptionDetected() has run
  msg,          \* codec: a message object built through the API
  wire,         \* codec: the bytes its serialize() passed to the sink
  decoded,      \* codec: the result of the raw-bytes constructor on wire
  view,         \* access: the Value object the caller holds
  path,         \* access: history, the selections that led to view
  result,       \* access: what the latest as<T>() returned or threw
  simple,       \* the SimpleWriter object's fields and the bytes in its sink
  last          \* history: the latest SimpleWriter call and how it ended

vars == <<scenario, stream, handlerKind, fed, firstChunk, lastChunk, reader,
          handler, calls, escaped, episodes, msg, wire, decoded,
          view, path, result, simple, last>>

readerVars == <<scenario, stream, handlerKind, fed, firstChunk, lastChunk,
                reader, handler, calls, escaped, episodes>>
codecVars == <<msg, wire, decoded>>
accessVars == <<view, path, result>>
simpleVars == <<simple, last>>

---------------------------------------------------------------------------
(* Bounds of the model *)

MaxChunk == 4      \* chunk lengths 1..MaxChunk (besides the special ones)
MaxZeros == 5      \* length of an inserted run of zero bytes
MaxEpisodes == 3   \* corrupt messages in one log
MaxExtra == 3      \* bytes of a flag-bits message beyond the 40 known ones
MaxText == 2       \* length of a text (log message, name) in the codec
MaxPayload == 2    \* length of a data payload / info value in the codec

---------------------------------------------------------------------------
(* Characters and byte helpers *)

Byte == 0..255

Chr ==
  [a |-> 97, b |-> 98, c |-> 99, d |-> 100, e |-> 101, f |-> 102, g |-> 103,
   h |-> 104, i |-> 105, j |-> 106, k |-> 107, l |-> 108, m |-> 109,
   n |-> 110, o |-> 111, p |-> 112, q |-> 113, r |-> 114, s |-> 115,
   t |-> 116, u |-> 117, v |-> 118, w |-> 119, x |-> 120, y |-> 121,
   z |-> 122, L |-> 76, U |-> 85] @@
  ("0" :> 48) @@ ("1" :> 49) @@ ("2" :> 50) @@ ("3" :> 51) @@ ("4" :> 52) @@
  ("5" :> 53) @@ ("6" :> 54) @@ ("7" :> 55) @@ ("8" :> 56) @@ ("9" :> 57) @@
  (" " :> 32) @@ (":" :> 58) @@ (";" :> 59) @@ ("[" :> 91) @@ ("]" :> 93) @@
  ("_" :> 95) @@ ("-" :> 45) @@ ("+" :> 43)

\* the bytes of a C++ string literal
Str(s) == [i \in 1..Len(s) |-> Chr[SubSeq(s, i, i)]]

Min(a, b) == IF a < b THEN a ELSE b

Zeros(n) == [i \in 1..n |-> 0]

\* little-endian integers, as the packed structs hold them
LE16(n) == <<n % 256, (n \div 256) % 256>>
LE64(n) ==
  LE16(n) \o LE16(n \div 65536) \o LE16((n \div 65536) \div 65536) \o
  LE16(((n \div 65536) \div 65536) \div 65536)
U16At(b, i) == b[i] + 256 * b[i + 1]
\* a uint64_t is kept as its 8 bytes in memory order (the code only copies it)
U64At(b, i) == SubSeq(b, i, i + 7)

\* std::string_view::find(ch): index (1-based) of the first ch, 0 for npos
RECURSIVE FindFrom(_, _, _)
FindFrom(s, ch, i) ==
  IF i > Len(s) THEN 0
  ELSE IF s[i] = ch THEN i
  ELSE FindFrom(s, ch, i + 1)
Find(s, ch) == FindFrom(s, ch, 1)


\* std::to_string of a non-negative int
RECURSIVE to_string(_)
to_string(n) ==
  IF n < 10 THEN <<48 + n>> ELSE to_string(n \div 10) \o <<48 + (n % 10)>>

IsDigit(ch) == ch >= 48 /\ ch <= 57

\* value of the longest prefix of decimal digits of s, starting from acc
RECURSIVE DigitsValue(_, _, _)
DigitsValue(s, i, acc) ==
  IF i > Len(s) \/ ~IsDigit(s[i]) THEN acc
  ELSE DigitsValue(s, i + 1, 10 * acc + (s[i] - 48))

\* std::stoi(s): optional sign, then at least one digit, the rest ignored;
\* std::invalid_argument when no digit follows
stoi(s) ==
  LET signed == Len(s) >= 1 /\ s[1] \in {43, 45}
      first == IF signed THEN 2 ELSE 1
  IN IF first > Len(s) \/ ~IsDigit(s[first])
     THEN [exc |-> "invalid_argument", value |-> 0]
     ELSE [exc |-> "none",
           value |-> IF signed /\ s[1] = 45 THEN 0 - DigitsValue(s, first, 0)
                     ELSE DigitsValue(s, first, 0)]

---------------------------------------------------------------------------
(* Raw frame layout *)

ULOG_MSG_HEADER_LEN == 3

ULogMessageType ==
  [FORMAT |-> 70, DATA |-> 68, INFO |-> 73, INFO_MULTIPLE |-> 77,
   PARAMETER |-> 80, PARAMETER_DEFAULT |-> 81, ADD_LOGGED_MSG |-> 65,
   REMOVE_LOGGED_MSG |-> 82, SYNC |-> 83, DROPOUT |-> 79, LOGGING |-> 76,
   LOGGING_TAGGED |-> 67, FLAG_BITS |-> 66]

\* the 7 magic bytes at the start of the file header
ulog_file_magic_bytes == <<85, 76, 111, 103, 1, 18, 53>>

kSyncMagicBytes == <<47, 115, 19, 32, 37, 12, 187, 18>>

\* sizeof(ulog_file_header_s): magic[8], timestamp:u64
FileHeaderLen == 16
\* sizeof(ulog_message_flag_bits_s): header, compat[8], incompat[8], u64[3]
FlagBitsLen == 43

ULOG_INCOMPAT_FLAG0_DATA_APPENDED_MASK == 1
ULOG_COMPAT_FLAG0_DEFAULT_PARAMETERS_MASK == 1

\* msg_size and msg_type of the message whose header starts at b[i]
MsgSize(b, i) == U16At(b, i)
MsgType(b, i) == b[i + 2]

\* the 3-byte ulog_message_header_s
RawHeader(size, type) == LE16(size) \o <<type>>

---------------------------------------------------------------------------
(* Field: type table, API constructor, text constructor, encode *)

kBasicTypes ==
  <<[name |-> Str("int8_t"), type |-> "INT8", size |-> 1],
    [name |-> Str("uint8_t"), type |-> "UINT8", size |-> 1],
    [name |-> Str("int16_t"), type |-> "INT16", size |-> 2],
    [name |-> Str("uint16_t"), type |-> "UINT16", size |-> 2],
    [name |-> Str("int32_t"), type |-> "INT32", size |-> 4],
    [name |-> Str("uint32_t"), type |-> "UINT32", size |-> 4],
    [name |-> Str("int64_t"), type |-> "INT64", size |-> 8],
    [name |-> Str("uint64_t"), type |-> "UINT64", size |-> 8],
    [name |-> Str("float"), type |-> "FLOAT", size |-> 4],
    [name |-> Str("double"), type |-> "DOUBLE", size |-> 8],
    [name |-> Str("bool"), type |-> "BOOL", size |-> 1],
    [name |-> Str("char"), type |-> "CHAR", size |-> 1]>>

\* std::shared_ptr<MessageFormat>{nullptr}; a pointer to a registered format
\* is the format's name, a text
nullptr == <<-1>>

\* the attributes of the basic type found, or the unresolved NESTED ones
FoundOrNested(hits, type_name) ==
  IF hits # <<>>
  THEN [name |-> hits[1].name, type |-> hits[1].type, size |-> hits[1].size,
        nested_message |-> nullptr]
  ELSE [name |-> type_name, type |-> "NESTED", size |-> 0,
        nested_message |-> nullptr]

\* kBasicTypes.find(type_name), or the unresolved NESTED attributes
TypeAttributes(type_name) ==
  FoundOrNested(SelectSeq(kBasicTypes, LAMBDA t : t.name = type_name),
                type_name)

\* Field(type_str, name_str, array_length_int)
Field(type_str, name_str, array_length_int) ==
  [type |-> TypeAttributes(type_str), array_length |-> array_length_int,
   offset_in_message_bytes |-> -1, name |-> name_str]

\* Field(const char* str, int len): '<type>[len] <name>' or '<type> <name>'
FieldFromText(key_value) ==
  LET first_space == Find(key_value, 32)
      key_array == SubSeq(key_value, 1, first_space - 1)
      name == SubSeq(key_value, first_space + 1, Len(key_value))
      bracket == Find(key_array, 91)
      type_name == IF bracket = 0 THEN key_array
                   ELSE SubSeq(key_array, 1, bracket - 1)
      len == IF bracket = 0 THEN [exc |-> "none", value |-> -1]
             ELSE stoi(SubSeq(key_array, bracket + 1, Len(key_array)))
  IN IF first_space = 0 THEN [exc |-> "ParsingException"]
     ELSE IF bracket # 0 /\ key_array[Len(key_array)] # 93
       THEN [exc |-> "ParsingException"]
     ELSE IF len.exc # "none" THEN [exc |-> len.exc]
     ELSE [exc |-> "none", field |-> Field(type_name, name, len.value)]

\* Field::encode
FieldEncode(f) ==
  IF f.array_length >= 0
  THEN f.type.name \o <<91>> \o to_string(f.array_length) \o <<93, 32>> \o f.name
  ELSE f.type.name \o <<32>> \o f.name

\* Field::operator==
FieldEq(a, b) ==
  a.type.name = b.type.name /\ a.array_length = b.array_length /\ a.name = b.name

---------------------------------------------------------------------------
(* Message objects: API constructors *)

\* FileHeader(uint64_t timestamp, bool has_default_parameters)
FileHeader(timestamp, has_default_parameters) ==
  [kind |-> "FileHeader",
   header |-> [magic |-> ulog_file_magic_bytes \o <<1>>,
               timestamp |-> LE64(timestamp)],
   flag_bits |->
     [msg_size |-> FlagBitsLen - ULOG_MSG_HEADER_LEN,
      msg_type |-> ULogMessageType.FLAG_BITS,
      compat_flags |->
        <<IF has_default_parameters
          THEN ULOG_COMPAT_FLAG0_DEFAULT_PARAMETERS_MASK ELSE 0>> \o Zeros(7),
      incompat_flags |-> Zeros(8),
      appended_offsets |-> Zeros(24)],
   has_flag_bits |-> TRUE]

\* FileHeader(header, flag_bits) and FileHeader(header)
FileHeaderRaw(header, flag_bits, has_flag_bits) ==
  [kind |-> "FileHeader", header |-> header, flag_bits |-> flag_bits,
   has_flag_bits |-> has_flag_bits]

\* ulog_message_flag_bits_s{} as FileHeader(header) leaves it
DefaultFlagBits ==
  [msg_size |-> 0, msg_type |-> ULogMessageType.FLAG_BITS,
   compat_flags |-> Zeros(8), incompat_flags |-> Zeros(8),
   appended_offsets |-> Zeros(24)]

\* MessageInfo(Field, value, is_multi, continued)
MessageInfo(field, value, is_multi, continued) ==
  [kind |-> "MessageInfo", field |-> field, value |-> value,
   continued |-> continued, is_multi |-> is_multi]

\* MessageInfo(key, std::string value)
MessageInfoString(key, value) ==
  MessageInfo(Field(Str("char"), key, Len(value)), value, FALSE, FALSE)

\* MessageFormat(name, fields); _fields maps a name to the first field of
\* that name (std::map::insert keeps the existing entry)
MessageFormat(name, fields) ==
  [kind |-> "MessageFormat", name |-> name, fields_ordered |-> fields,
   fields |-> [n \in {fields[i].name : i \in 1..Len(fields)} |->
                 CHOOSE i \in 1..Len(fields) :
                   /\ fields[i].name = n
                   /\ \A j \in 1..(i - 1) : fields[j].name # n]]

ParameterDefault(field, value, default_types) ==
  [kind |-> "ParameterDefault", field |-> field, value |-> value,
   default_types |-> default_types]

AddLoggedMessage(multi_id, msg_id, message_name) ==
  [kind |-> "AddLoggedMessage", multi_id |-> multi_id, msg_id |-> msg_id,
   message_name |-> message_name]

\* Logging::Level: the characters '0' .. '7'
Level ==
  [Emergency |-> 48, Alert |-> 49, Critical |-> 50, Error |-> 51,
   Warning |-> 52, Notice |-> 53, Info |-> 54, Debug |-> 55]

LoggingRaw(level, tag, has_tag, timestamp, message) ==
  [kind |-> "Logging", log_level |-> level, tag |-> tag, has_tag |-> has_tag,
   timestamp |-> timestamp, message |-> message]

\* Logging(Level, message, timestamp)
Logging(level, message, timestamp) ==
  LoggingRaw(level, 0, FALSE, LE64(timestamp), message)

Data(msg_id, data) == [kind |-> "Data", msg_id |-> msg_id, data |-> data]

Dropout(duration_ms) == [kind |-> "Dropout", duration_ms |-> duration_ms]

Sync == [kind |-> "Sync"]

---------------------------------------------------------------------------
(* serialize(): the bytes passed to the DataWriteCB, or "message too long" *)

UINT16_MAX == 65535
UINT8_MAX == 255

Written(bytes) == [exc |-> "none", bytes |-> bytes]
TooLong == [exc |-> "ParsingException", bytes |-> <<>>]

FileHeaderSerialize(h) ==
  Written(
    h.header.magic \o h.header.timestamp \o
    (IF h.has_flag_bits
     THEN RawHeader(FlagBitsLen - ULOG_MSG_HEADER_LEN, h.flag_bits.msg_type) \o
          h.flag_bits.compat_flags \o h.flag_bits.incompat_flags \o
          h.flag_bits.appended_offsets
     ELSE <<>>))

\* MessageInfo::serialize(writer, type); Parameter is the same class
MessageInfoSerialize(info, type) ==
  LET field_encoded == FieldEncode(info.field)
      msg_size == Len(field_encoded) + Len(info.value) +
                  (IF info.is_multi THEN 2 ELSE 1)
  IN IF msg_size > UINT16_MAX \/ Len(field_encoded) > UINT8_MAX THEN TooLong
     ELSE IF info.is_multi
       THEN Written(RawHeader(msg_size, ULogMessageType.INFO_MULTIPLE) \o
                    <<IF info.continued THEN 1 ELSE 0, Len(field_encoded)>> \o
                    field_encoded \o info.value)
     ELSE Written(RawHeader(msg_size, type) \o <<Len(field_encoded)>> \o
                  field_encoded \o info.value)

RECURSIVE FormatFieldsText(_, _)
FormatFieldsText(fields, i) ==
  IF i > Len(fields) THEN <<>>
  ELSE FieldEncode(fields[i]) \o <<59>> \o FormatFieldsText(fields, i + 1)

MessageFormatSerialize(format) ==
  LET format_str == format.name \o <<58>> \o
                    FormatFieldsText(format.fields_ordered, 1)
  IN IF Len(format_str) > UINT16_MAX THEN TooLong
     ELSE Written(RawHeader(Len(format_str), ULogMessageType.FORMAT) \o
                  format_str)

ParameterDefaultSerialize(pd) ==
  LET field_encoded == FieldEncode(pd.field)
      msg_size == Len(field_encoded) + Len(pd.value) + 2
  IN IF msg_size > UINT16_MAX \/ Len(field_encoded) > UINT8_MAX THEN TooLong
     ELSE Written(RawHeader(msg_size, ULogMessageType.PARAMETER_DEFAULT) \o
                  <<pd.default_types, Len(field_encoded)>> \o
                  field_encoded \o pd.value)

AddLoggedMessageSerialize(a) ==
  LET msg_size == Len(a.message_name) + 3
  IN IF msg_size > UINT16_MAX THEN TooLong
     ELSE Written(RawHeader(msg_size, ULogMessageType.ADD_LOGGED_MSG) \o
                  <<a.multi_id>> \o LE16(a.msg_id) \o a.message_name)

LoggingSerialize(l) ==
  LET msg_size == Len(l.message) + (IF l.has_tag THEN 11 ELSE 9)
  IN IF msg_size > UINT16_MAX THEN TooLong
     ELSE IF l.has_tag
       THEN Written(RawHeader(msg_size, ULogMessageType.LOGGING_TAGGED) \o
                    <<l.log_level>> \o LE16(l.tag) \o l.timestamp \o l.message)
     ELSE Written(RawHeader(msg_size, ULogMessageType.LOGGING) \o
                  <<l.log_level>> \o l.timestamp \o l.message)

DataSerialize(d) ==
  LET msg_size == Len(d.data) + 2
  IN IF msg_size > UINT16_MAX THEN TooLong
     ELSE Written(RawHeader(msg_size, ULogMessageType.DATA) \o
                  LE16(d.msg_id) \o d.data)

DropoutSerialize(d) ==
  Written(RawHeader(2, ULogMessageType.DROPOUT) \o LE16(d.duration_ms))

SyncSerialize ==
  Written(RawHeader(Len(kSyncMagicBytes), ULogMessageType.SYNC) \o
          kSyncMagicBytes)

---------------------------------------------------------------------------
(* Raw-bytes constructors: b holds the message from its header on, whole *)

Parsed(obj) == [exc |-> "none", obj |-> obj]
Throw(exc) == [exc |-> exc, obj |-> [kind |-> "none"]]
TooShort == Throw("ParsingException")

\* MessageInfo(const uint8_t* msg, bool is_multi) behind the construction
\* of its Field, which ended as f
MessageInfoWithField(b, is_multi, extra, f) ==
  IF f.exc # "none" THEN Throw(f.exc)
  ELSE Parsed(MessageInfo(f.field,
                          SubSeq(b, 4 + extra + b[3 + extra], 3 + MsgSize(b, 1)),
                          is_multi,
                          is_multi /\ b[4] # 0))

\* MessageInfo(const uint8_t* msg, bool is_multi)
MessageInfoFromBytes(b, is_multi) ==
  LET msg_size == MsgSize(b, 1)
      extra == IF is_multi THEN 2 ELSE 1
      key_len == b[3 + extra]
  IN IF msg_size < extra + 1 THEN TooShort
     ELSE IF key_len > msg_size - extra THEN Throw("ParsingException")
     ELSE MessageInfoWithField(
            b, is_multi, extra,
            FieldFromText(SubSeq(b, 4 + extra, 3 + extra + key_len)))

RECURSIVE FormatFieldsFromText(_, _)

\* the loop of MessageFormat(const uint8_t* msg): on from the field up to
\* the semicolon, whose construction ended as f
FormatFieldsWithField(format_str, acc, semicolon, f) ==
  IF f.exc # "none" THEN [exc |-> f.exc, fields |-> acc]
  ELSE FormatFieldsFromText(
         SubSeq(format_str, semicolon + 1, Len(format_str)),
         Append(acc, f.field))

\* the loop of MessageFormat(const uint8_t* msg) over '<field>;' items
FormatFieldsFromText(format_str, acc) ==
  IF format_str = <<>> THEN [exc |-> "none", fields |-> acc]
  ELSE IF Find(format_str, 59) = 0
    THEN [exc |-> "ParsingException", fields |-> acc]
  ELSE FormatFieldsWithField(
         format_str, acc, Find(format_str, 59),
         FieldFromText(SubSeq(format_str, 1, Find(format_str, 59) - 1)))

\* MessageFormat(const uint8_t* msg) behind the loop over its fields, which
\* ended as fs
MessageFormatWithFields(name, fs) ==
  IF fs.exc # "none" THEN Throw(fs.exc)
  ELSE Parsed(MessageFormat(name, fs.fields))

\* MessageFormat(const uint8_t* msg): '<name>:<field0>;<field1>; ...'
MessageFormatFromBytes(b) ==
  LET format_str == SubSeq(b, 4, 3 + MsgSize(b, 1))
      colon == Find(format_str, 58)
  IN IF colon = 0 THEN Throw("ParsingException")
     ELSE MessageFormatWithFields(
            SubSeq(format_str, 1, colon - 1),
            FormatFieldsFromText(
              SubSeq(format_str, colon + 1, Len(format_str)), <<>>))

\* ParameterDefault(const uint8_t* msg) behind the construction of its
\* Field, which ended as f
ParameterDefaultWithField(b, f) ==
  IF f.exc # "none" THEN Throw(f.exc)
  ELSE Parsed(ParameterDefault(f.field,
                               SubSeq(b, 6 + b[5], 3 + MsgSize(b, 1)), b[4]))

\* ParameterDefault(const uint8_t* msg)
ParameterDefaultFromBytes(b) ==
  LET msg_size == MsgSize(b, 1)
      key_len == b[5]
  IN IF msg_size < 3 THEN TooShort
     ELSE IF key_len > msg_size - 2 THEN Throw("ParsingException")
     ELSE ParameterDefaultWithField(b, FieldFromText(SubSeq(b, 6, 5 + key_len)))

\* AddLoggedMessage(const uint8_t* msg)
AddLoggedMessageFromBytes(b) ==
  LET msg_size == MsgSize(b, 1)
  IN IF msg_size < 4 THEN TooShort
     ELSE Parsed(AddLoggedMessage(b[4], U16At(b, 5),
                                  SubSeq(b, 7, 3 + msg_size)))

\* Logging(const uint8_t* msg, bool is_tagged)
LoggingFromBytes(b, is_tagged) ==
  LET msg_size == MsgSize(b, 1)
      log_level == b[4]
      level == IF log_level < Level.Emergency \/ log_level > Level.Debug
               THEN Level.Debug ELSE log_level
  IN IF is_tagged
     THEN IF msg_size < 12 THEN TooShort
          ELSE Parsed(LoggingRaw(level, U16At(b, 5), TRUE, U64At(b, 7),
                                 SubSeq(b, 15, 3 + msg_size)))
     ELSE IF msg_size < 10 THEN TooShort
          ELSE Parsed(LoggingRaw(level, 0, FALSE, U64At(b, 5),
                                 SubSeq(b, 13, 3 + msg_size)))

\* Data(const uint8_t* msg)
DataFromBytes(b) ==
  LET msg_size == MsgSize(b, 1)
  IN IF msg_size < 3 THEN TooShort
     ELSE Parsed(Data(U16At(b, 4), SubSeq(b, 6, 3 + msg_size)))

\* Dropout(const uint8_t* msg)
DropoutFromBytes(b) ==
  IF MsgSize(b, 1) < 2 THEN TooShort ELSE Parsed(Dropout(U16At(b, 4)))

\* variant of Sync(const uint8_t* msg) that does not compare the magic
SyncFromBytesUnchecked(b) ==
  IF MsgSize(b, 1) < Len(kSyncMagicBytes) THEN TooShort ELSE Parsed(Sync)

\* Sync(const uint8_t* msg)
SyncFromBytes(b) ==
  IF MsgSize(b, 1) < Len(kSyncMagicBytes) THEN TooShort
  ELSE IF SubSeq(b, 4, 3 + Len(kSyncMagicBytes)) # kSyncMagicBytes
    THEN Throw("ParsingException")
  ELSE Parsed(Sync)

\* the raw structs as readMagic / readFlagBits reinterpret the bytes
RawFileHeader(b) == [magic |-> SubSeq(b, 1, 8), timestamp |-> U64At(b, 9)]
RawFlagBits(b) ==
  [msg_size |-> MsgSize(b, 1), msg_type |-> MsgType(b, 1),
   compat_flags |-> SubSeq(b, 4, 11), incompat_flags |-> SubSeq(b, 12, 19),
   appended_offsets |-> SubSeq(b, 20, 43)]

---------------------------------------------------------------------------
(* operator== of the message classes (member-wise where the class has none) *)

FileHeaderEq(a, b) ==
  a.header = b.header /\ (~a.has_flag_bits \/ a.flag_bits = b.flag_bits)

MessageInfoEq(a, b) ==
  FieldEq(a.field, b.field) /\ a.value = b.value /\
  a.continued = b.continued /\ a.is_multi = b.is_multi

MessageFormatEq(a, b) ==
  /\ a.name = b.name
  /\ Cardinality(DOMAIN a.fields) = Cardinality(DOMAIN b.fields)
  /\ Len(a.fields_ordered) <= Len(b.fields_ordered)
  /\ \A i \in 1..Len(a.fields_ordered) :
       FieldEq(a.fields_ordered[i], b.fields_ordered[i])

LoggingEq(a, b) ==
  a.log_level = b.log_level /\ a.tag = b.tag /\ a.has_tag = b.has_tag /\
  a.timestamp = b.timestamp /\ a.message = b.message

DataEq(a, b) == a.msg_id = b.msg_id /\ a.data = b.data

---------------------------------------------------------------------------
(* Format resolution (Field / MessageFormat::resolveDefinition).  Formats   *)
(* are shared objects owned by the registry; a pointer to one is its name.  *)

\* Field::definitionResolved
definitionResolved(f) ==
  f.offset_in_message_bytes >= 0 /\
  (f.type.type # "NESTED" \/ f.type.nested_message # nullptr)

\* Field::sizeBytes of a resolved field
FieldSizeBytes(f) ==
  f.type.size * (IF f.array_length = -1 THEN 1 ELSE f.array_length)

\* the sum of sizeBytes() over the fields at the indices in S
RECURSIVE SumSizeBytes(_, _)
SumSizeBytes(fields_ordered, S) ==
  IF S = {} THEN 0
  ELSE LET i == CHOOSE j \in S : TRUE
       IN FieldSizeBytes(fields_ordered[i]) +
          SumSizeBytes(fields_ordered, S \ {i})

\* MessageFormat::sizeBytes: sums over the by-name map _fields;
\* "Unresolved type" when one of its fields is not resolved
FormatSizeBytes(format) ==
  LET idx == {format.fields[n] : n \in DOMAIN format.fields}
  IN IF \E i \in idx : ~definitionResolved(format.fields_ordered[i])
     THEN [exc |-> "ParsingException", size |-> 0]
     ELSE [exc |-> "none", size |-> SumSizeBytes(format.fields_ordered, idx)]

RECURSIVE ResolveFormatFields(_, _, _, _)

\* resolveDefinition of a nested field: the size of the nested format is
\* known (or sizeBytes() has thrown)
NestedFieldSized(sub, size, name, i) ==
  IF size.exc # "none" THEN [exc |-> size.exc, formats |-> sub.formats]
  ELSE [exc |-> "none",
        formats |-> [sub.formats EXCEPT
                       ![name].fields_ordered[i].type.size = size.size]]

\* resolveDefinition of a nested field: the nested format has been resolved
\* (or its resolveDefinition has thrown)
NestedFieldResolved(sub, nested, name, i) ==
  IF sub.exc # "none" THEN sub
  ELSE NestedFieldSized(sub, FormatSizeBytes(sub.formats[nested]), name, i)

\* Field::resolveDefinition(existing_formats, offset) on the i-th field of
\* the registered format `name` (not yet resolved)
ResolveFieldIn(formats, name, i, offset) ==
  LET f == formats[name].fields_ordered[i]
      F1 == [formats EXCEPT
               ![name].fields_ordered[i].offset_in_message_bytes = offset]
  IN IF f.type.type # "NESTED" THEN [exc |-> "none", formats |-> F1]
     ELSE IF f.type.name \notin DOMAIN formats
       THEN [exc |-> "ParsingException", formats |-> F1]
     ELSE NestedFieldResolved(
            ResolveFormatFields(
              [F1 EXCEPT ![name].fields_ordered[i].type.nested_message =
                           f.type.name],
              f.type.name, 1, 0),
            f.type.name, name, i)

\* MessageFormat::resolveDefinition: on from field i, which r has resolved
ResolveNextField(r, name, i, offset) ==
  IF r.exc # "none" THEN r
  ELSE ResolveFormatFields(
         r.formats, name, i + 1,
         offset + FieldSizeBytes(r.formats[name].fields_ordered[i]))

\* MessageFormat::resolveDefinition(existing_formats): the loop from field i
ResolveFormatFields(formats, name, i, offset) ==
  IF i > Len(formats[name].fields_ordered)
  THEN [exc |-> "none", formats |-> formats]
  ELSE ResolveNextField(
         IF definitionResolved(formats[name].fields_ordered[i])
         THEN [exc |-> "none", formats |-> formats]
         ELSE ResolveFieldIn(formats, name, i, offset),
         name, i, offset)

ResolveFormat(formats, name) == ResolveFormatFields(formats, name, 1, 0)

\* resolveDefinition of the nested Field f2 of an info or parameter message:
\* the size of the nested format is known (or sizeBytes() has thrown)
OwnFieldSized(sub, size, f2) ==
  IF size.exc # "none"
  THEN [exc |-> size.exc, formats |-> sub.formats, field |-> f2]
  ELSE [exc |-> "none", formats |-> sub.formats,
        field |-> [f2 EXCEPT !.type.size = size.size]]

\* the same: the nested format has been resolved (or has thrown)
OwnFieldResolved(sub, f2) ==
  IF sub.exc # "none"
  THEN [exc |-> sub.exc, formats |-> sub.formats, field |-> f2]
  ELSE OwnFieldSized(sub, FormatSizeBytes(sub.formats[f2.type.name]), f2)

\* Field::resolveDefinition(int offset)
ResolveOffset(f, offset) ==
  IF definitionResolved(f) THEN [exc |-> "none", field |-> f]
  ELSE IF f.type.type = "NESTED" THEN [exc |-> "ParsingException", field |-> f]
  ELSE [exc |-> "none", field |-> [f EXCEPT !.offset_in_message_bytes = offset]]

\* a resolveDefinition that does not test definitionResolved() first
ResolveFieldUnguarded(formats, f, offset) ==
  IF f.type.type # "NESTED"
  THEN [exc |-> "none", formats |-> formats,
        field |-> [f EXCEPT !.offset_in_message_bytes = offset]]
  ELSE IF f.type.name \notin DOMAIN formats
    THEN [exc |-> "ParsingException", formats |-> formats,
          field |-> [f EXCEPT !.offset_in_message_bytes = offset]]
  ELSE OwnFieldResolved(
         ResolveFormat(formats, f.type.name),
         [f EXCEPT !.offset_in_message_bytes = offset,
                   !.type.nested_message = f.type.name])

\* Field::resolveDefinition(existing_formats, offset) on the Field of an
\* info or parameter message (an object of its own, outside the registry)
ResolveField(formats, f, offset) ==
  IF definitionResolved(f)
  THEN [exc |-> "none", formats |-> formats, field |-> f]
  ELSE IF f.type.type # "NESTED"
    THEN [exc |-> "none", formats |-> formats,
          field |-> [f EXCEPT !.offset_in_message_bytes = offset]]
  ELSE IF f.type.name \notin DOMAIN formats
    THEN [exc |-> "ParsingException", formats |-> formats,
          field |-> [f EXCEPT !.offset_in_message_bytes = offset]]
  ELSE OwnFieldResolved(
         ResolveFormat(formats, f.type.name),
         [f EXCEPT !.offset_in_message_bytes = offset,
                   !.type.nested_message = f.type.name])

---------------------------------------------------------------------------
(* Value: a typed view of the bytes of a sample or of an info value.        *)
(* _backing_ref_begin is kept as its distance from the start of the backing *)
(* vector (begin), _backing_ref_end is the end of that vector.              *)

\* Value(field_ref, backing_ref_begin, backing_ref_end, array_index)
Value(field_ref, backing, begin, array_index) ==
  [kind |-> "Value", field |-> field_ref, backing |-> backing,
   begin |-> begin, array_index |-> array_index]

\* the byte a read at distance `at` from the start of the backing vector
\* finds: a read outside the vector finds whatever lies there (outside)
MemoryByte(backing, at, outside) ==
  IF at >= 0 /\ at < Len(backing) THEN backing[at + 1] ELSE outside

\* Value::deserialize<T>: the bounds check, and on success the distance of
\* the sizeof(T) bytes it copies from the start of the backing vector
deserialize(size_of_T, v, offset, array_offset) ==
  LET total_offset == offset + array_offset * size_of_T
  IN IF v.begin > Len(v.backing) \/
        Len(v.backing) - v.begin - total_offset < size_of_T
     THEN [exc |-> "ParsingException", at |-> 0]
     ELSE [exc |-> "none", at |-> v.begin + total_offset]

\* the value deserialize<T> has copied from distance d.at (or its exception)
Deserialized(v, d, size_of_T, outside) ==
  IF d.exc # "none" THEN [exc |-> d.exc, reads |-> {}]
  ELSE [exc |-> "none", type |-> v.field.type.type, shape |-> "scalar",
        elems |-> <<[i \in 1..size_of_T |->
                       MemoryByte(v.backing, d.at + i - 1, outside)]>>,
        reads |-> d.at..(d.at + size_of_T - 1)]

\* Value::deserializeVector<T> behind the size elements' bounds checks
\* (each): the loop ends at the first element whose check throws
DeserializedVector(v, each, size_of_T, size, outside) ==
  LET bad == {i \in 1..size : each[i].exc # "none"}
      done == IF bad = {} THEN size
              ELSE (CHOOSE i \in bad : \A j \in bad : i <= j) - 1
      reads == UNION {each[i].at..(each[i].at + size_of_T - 1) : i \in 1..done}
  IN IF bad # {} THEN [exc |-> "ParsingException", reads |-> reads]
     ELSE [exc |-> "none", type |-> v.field.type.type, shape |-> "vector",
           elems |-> [i \in 1..size |->
                        [k \in 1..size_of_T |->
                           MemoryByte(v.backing, each[i].at + k - 1, outside)]],
           reads |-> reads]

\* Value::deserializeVector<T>; res.resize(size) of a negative size throws
\* std::length_error
deserializeVector(size_of_T, v, offset, size, outside) ==
  IF size < 0 THEN [exc |-> "length_error", reads |-> {}]
  ELSE DeserializedVector(
         v, [i \in 1..size |-> deserialize(size_of_T, v, offset, i - 1)],
         size_of_T, size, outside)

\* strnlen(ptr, max_len) of utils.hpp: "while ((*ptr != 0) && (len < max_len))"
\* reads *ptr before it compares len
RECURSIVE strnlen(_, _, _, _, _)
strnlen(backing, ptr, max_len, len, outside) ==
  IF MemoryByte(backing, ptr + len, outside) # 0 /\ len < max_len
  THEN strnlen(backing, ptr, max_len, len + 1, outside)
  ELSE len

\* the std::string built from string_length bytes at string_start
DecodedString(v, string_start, string_length, outside) ==
  [exc |-> "none", type |-> "CHAR", shape |-> "string",
   elems |-> [i \in 1..string_length |->
                MemoryByte(v.backing, string_start + i - 1, outside)],
   reads |-> string_start..(string_start + string_length)]

\* Value::asNativeTypeVariant, the case BasicType::CHAR of an array
DecodeString(v, string_start, outside) ==
  IF Len(v.backing) - string_start < v.field.array_length
  THEN [exc |-> "ParsingException", reads |-> {}]
  ELSE DecodedString(
         v, string_start,
         strnlen(v.backing, string_start, v.field.array_length, 0, outside),
         outside)

\* Value::asNativeTypeVariant: the native value (its raw bytes, element by
\* element), the exception thrown, and the distances of the bytes read
asNativeTypeVariant(v, outside) ==
  IF v.array_index >= 0 /\ v.field.array_length < 0
  THEN [exc |-> "ParsingException", reads |-> {}]
  ELSE IF v.field.type.type = "NESTED"
    THEN [exc |-> "ParsingException", reads |-> {}]
  ELSE IF v.field.array_length = -1 \/ v.array_index >= 0
    THEN Deserialized(
           v, deserialize(v.field.type.size, v, v.field.offset_in_message_bytes,
                          IF v.array_index >= 0 THEN v.array_index ELSE 0),
           v.field.type.size, outside)
  ELSE IF v.field.type.type = "CHAR"
    THEN DecodeString(v, v.begin + v.field.offset_in_message_bytes, outside)
  ELSE deserializeVector(v.field.type.size, v, v.field.offset_in_message_bytes,
                         v.field.array_length, outside)

\* the number a native value of a basic type holds, from its raw bytes; a
\* plain char is signed or unsigned as the build has it.  Types wider than
\* the integers of the model are kept as their bytes.
NativeNumber(type, b, char_is_signed) ==
  CASE type \in {"UINT8", "BOOL"} -> b[1]
    [] type = "INT8" -> IF b[1] >= 128 THEN b[1] - 256 ELSE b[1]
    [] type = "CHAR" ->
         IF char_is_signed /\ b[1] >= 128 THEN b[1] - 256 ELSE b[1]
    [] type = "UINT16" -> b[1] + 256 * b[2]
    [] type = "INT16" ->
         b[1] + 256 * (IF b[2] >= 128 THEN b[2] - 256 ELSE b[2])
    [] type = "INT32" ->
         b[1] + 256 * b[2] + 65536 * b[3] +
         16777216 * (IF b[4] >= 128 THEN b[4] - 256 ELSE b[4])
    [] OTHER -> b

\* the value of m, taken modulo 2 * half, in the signed type of that width
SignedOfWidth(m, half) == IF m >= half THEN m - 2 * half ELSE m

\* static_cast<ReturnType>(x) of a number x that fits in an int32_t
static_cast(ReturnType, x) ==
  CASE ReturnType = "UINT8" -> x % 256
    [] ReturnType = "INT8" -> SignedOfWidth(x % 256, 128)
    [] ReturnType = "UINT16" -> x % 65536
    [] ReturnType = "INT16" -> SignedOfWidth(x % 65536, 32768)
    [] ReturnType = "BOOL" -> IF x = 0 THEN 0 ELSE 1
    [] OTHER -> x

\* staticCastEnsureUnsignedChar<ReturnType>(v) of utils.hpp
staticCastEnsureUnsignedChar(ReturnType, OriginType, b, char_is_signed) ==
  IF OriginType = "CHAR"
  THEN static_cast(ReturnType, b[1])
  ELSE static_cast(ReturnType, NativeNumber(OriginType, b, char_is_signed))

\* Value::as<T>() behind asNativeTypeVariant(), which ended as native; T is
\* [type, shape] with the shapes "scalar", "vector" and "string"
as(native, T, char_is_signed) ==
  IF native.exc # "none" THEN [exc |-> native.exc, reads |-> native.reads]
  ELSE IF native.shape = "string" \/ T.shape = "string"
    THEN IF native.shape = "string" /\ T.shape = "string"
         THEN [exc |-> "none", shape |-> "string", res |-> native.elems,
               reads |-> native.reads]
         ELSE [exc |-> "ParsingException", reads |-> native.reads]
  ELSE IF native.shape = "vector"
    THEN IF T.shape = "vector"
         THEN [exc |-> "none", shape |-> "vector",
               res |-> [i \in 1..Len(native.elems) |->
                          IF native.type = T.type
                          THEN NativeNumber(native.type, native.elems[i],
                                            char_is_signed)
                          ELSE static_cast(
                                 T.type,
                                 NativeNumber(native.type, native.elems[i],
                                              char_is_signed))],
               reads |-> native.reads]
         ELSE IF Len(native.elems) > 0
           THEN [exc |-> "none", shape |-> "scalar",
                 res |-> staticCastEnsureUnsignedChar(
                           T.type, native.type, native.elems[1],
                           char_is_signed),
                 reads |-> native.reads]
         ELSE [exc |-> "ParsingException", reads |-> native.reads]
  ELSE IF T.shape = "vector"
    THEN [exc |-> "none", shape |-> "vector",
          res |-> <<static_cast(T.type,
                                NativeNumber(native.type, native.elems[1],
                                             char_is_signed))>>,
          reads |-> native.reads]
  ELSE [exc |-> "none", shape |-> "scalar",
        res |-> staticCastEnsureUnsignedChar(
                  T.type, native.type, native.elems[1], char_is_signed),
        reads |-> native.reads]

\* a selection that forgets the array index of the nested element
SelectFieldAtElementZero(v, field) ==
  IF v.field.type.type # "NESTED" THEN [exc |-> "ParsingException"]
  ELSE IF ~definitionResolved(v.field) THEN [exc |-> "ParsingException"]
  ELSE [exc |-> "none",
        value |-> Value(field, v.backing,
                        v.begin + v.field.offset_in_message_bytes, -1)]

\* Value::operator[](const Field& field)
SelectField(v, field) ==
  IF v.field.type.type # "NESTED" THEN [exc |-> "ParsingException"]
  ELSE IF ~definitionResolved(v.field) THEN [exc |-> "ParsingException"]
  ELSE [exc |-> "none",
        value |-> Value(field, v.backing,
                        v.begin + v.field.offset_in_message_bytes +
                          (IF v.array_index >= 0
                           THEN v.field.type.size * v.array_index ELSE 0),
                        -1)]

\* MessageFormat::field(name): _fields.at(name) throws std::out_of_range
FormatField(format, name) ==
  IF name \in DOMAIN format.fields
  THEN [exc |-> "none", field |-> format.fields_ordered[format.fields[name]]]
  ELSE [exc |-> "out_of_range"]

\* Value::operator[](const Field&) on the field the format has found
SelectFound(v, found) ==
  IF found.exc # "none" THEN [exc |-> found.exc]
  ELSE SelectField(v, found.field)

\* Value::operator[](const std::string& field_name); formats is the registry
\* the field's nested_message points into
SelectName(formats, v, field_name) ==
  IF v.field.type.type # "NESTED" THEN [exc |-> "ParsingException"]
  ELSE IF ~definitionResolved(v.field) THEN [exc |-> "ParsingException"]
  ELSE SelectFound(v, FormatField(formats[v.field.type.nested_message],
                                  field_name))

\* Value::operator[](size_t index)
SelectIndex(v, index) ==
  IF v.field.array_length < 0 THEN [exc |-> "ParsingException"]
  ELSE IF index >= v.field.array_length THEN [exc |-> "ParsingException"]
  ELSE [exc |-> "none", value |-> Value(v.field, v.backing, v.begin, index)]

\* TypedDataView::at(const Field& field) on the sample data
TypedDataViewAt(data, field) ==
  IF ~definitionResolved(field) THEN [exc |-> "ParsingException"]
  ELSE [exc |-> "none", value |-> Value(field, data.data, 0, -1)]

\* TypedDataView::at(const std::string& field_name), behind the lookup
AtFound(data, found) ==
  IF found.exc # "none" THEN [exc |-> found.exc]
  ELSE TypedDataViewAt(data, found.field)

\* TypedDataView::at(const std::string& field_name)
TypedDataViewAtName(data, format, field_name) ==
  AtFound(data, FormatField(format, field_name))

\* MessageInfo::value(), ParameterDefault::value()
MessageInfoValue(info) == Value(info.field, info.value, 0, -1)

---------------------------------------------------------------------------
(* DataContainer: the handler that stores what it is given.  Every method   *)
(* returns the object as the call leaves it and the exception it raised.    *)

\* std::string operator< on byte texts (the iteration order of std::map)
RECURSIVE LexLess(_, _)
LexLess(a, b) ==
  IF b = <<>> THEN FALSE
  ELSE IF a = <<>> THEN TRUE
  ELSE IF a[1] # b[1] THEN a[1] < b[1]
  ELSE LexLess(Tail(a), Tail(b))

\* the first key of a non-empty set of texts in map order
FirstKey(S) == CHOOSE k \in S : \A o \in S \ {k} : LexLess(k, o)

Returned(h) == [exc |-> "none", h |-> h]
Raised(h) == [exc |-> "ParsingException", h |-> h]

\* DataContainer(StorageConfig)
DataContainer(storage_config) ==
  [kind |-> "DataContainer", storage_config |-> storage_config,
   header_complete |-> FALSE, had_fatal_error |-> FALSE,
   parsing_errors |-> <<>>, file_header |-> FileHeader(0, FALSE),
   message_info |-> <<>>, message_info_multi |-> <<>>,
   message_formats |-> <<>>, initial_parameters |-> <<>>,
   default_parameters |-> <<>>, changed_parameters |-> <<>>,
   subscriptions_by_message_id |-> <<>>,
   subscriptions_by_name_and_multi_id |-> <<>>,
   logging |-> <<>>, dropouts |-> <<>>]

\* an insertion that replaces an existing entry, as map[key] = value does
MapAssign(map, key, value) ==
  (key :> value) @@ [k \in DOMAIN map \ {key} |-> map[k]]

\* std::map::insert: an existing entry is kept
MapInsert(map, key, value) ==
  IF key \in DOMAIN map THEN map ELSE (key :> value) @@ map

DataContainerError(h, text, is_recoverable) ==
  Returned([h EXCEPT
    !.had_fatal_error = IF is_recoverable THEN @ ELSE TRUE,
    !.parsing_errors = Append(@, text)])

RECURSIVE ResolveAllFormats(_, _)

\* headerComplete: the formats loop, on from the format `name`, which r has
\* resolved
ResolveNextFormat(r, todo, name) ==
  IF r.exc # "none" THEN r ELSE ResolveAllFormats(r.formats, todo \ {name})

\* the loop "for (auto& it : _message_formats) resolveDefinition" over the
\* formats named in todo, in map order
ResolveAllFormats(formats, todo) ==
  IF todo = {} THEN [exc |-> "none", formats |-> formats]
  ELSE ResolveNextFormat(ResolveFormat(formats, FirstKey(todo)),
                         todo, FirstKey(todo))

RECURSIVE ResolveMapFields(_, _, _)

\* on from the message at key, whose field r has resolved
ResolveNextInMap(r, map, todo, key) ==
  IF r.exc # "none"
  THEN [exc |-> r.exc, formats |-> r.formats,
        items |-> [map EXCEPT ![key].field = r.field]]
  ELSE ResolveMapFields(r.formats, [map EXCEPT ![key].field = r.field],
                        todo \ {key})

\* resolve the field of every message of a map (info, parameters), in map order
ResolveMapFields(formats, map, todo) ==
  IF todo = {} THEN [exc |-> "none", formats |-> formats, items |-> map]
  ELSE ResolveNextInMap(ResolveField(formats, map[FirstKey(todo)].field, 0),
                        map, todo, FirstKey(todo))

RECURSIVE ResolveSeqFields(_, _, _)

\* on from the i-th message, whose field r has resolved
ResolveNextInSeq(r, seq, i) ==
  IF r.exc # "none"
  THEN [exc |-> r.exc, formats |-> r.formats,
        items |-> [seq EXCEPT ![i].field = r.field]]
  ELSE ResolveSeqFields(r.formats, [seq EXCEPT ![i].field = r.field], i + 1)

\* resolve the field of every message of a vector, from index i on
ResolveSeqFields(formats, seq, i) ==
  IF i > Len(seq) THEN [exc |-> "none", formats |-> formats, items |-> seq]
  ELSE ResolveNextInSeq(ResolveField(formats, seq[i].field, 0), seq, i)

\* the groups of one info-multi key, flattened and put back
RECURSIVE FlattenUpTo(_, _)
FlattenUpTo(groups, i) ==
  IF i = 0 THEN <<>> ELSE FlattenUpTo(groups, i - 1) \o groups[i]
FlattenGroups(groups) == FlattenUpTo(groups, Len(groups))
Regroup(groups, flat) ==
  [i \in 1..Len(groups) |->
     SubSeq(flat, Len(FlattenUpTo(groups, i - 1)) + 1,
            Len(FlattenUpTo(groups, i)))]

RECURSIVE ResolveMultiFields(_, _, _)

\* on from the groups at key, whose fields r has resolved
ResolveNextInMulti(r, multi, todo, key) ==
  IF r.exc # "none"
  THEN [exc |-> r.exc, formats |-> r.formats,
        items |-> [multi EXCEPT ![key] = Regroup(@, r.items)]]
  ELSE ResolveMultiFields(r.formats,
                          [multi EXCEPT ![key] = Regroup(@, r.items)],
                          todo \ {key})

\* resolve the field of every message of _message_info_multi, in map order
ResolveMultiFields(formats, multi, todo) ==
  IF todo = {} THEN [exc |-> "none", formats |-> formats, items |-> multi]
  ELSE ResolveNextInMulti(
         ResolveSeqFields(formats, FlattenGroups(multi[FirstKey(todo)]), 1),
         multi, todo, FirstKey(todo))

\* headerComplete: a loop over the messages of `member` has ended as r
ResolvedMember(h, member, r) ==
  [exc |-> r.exc,
   h |-> [h EXCEPT !.message_formats = r.formats, ![member] = r.items]]

\* headerComplete: the loop over _message_formats has ended as r
ResolvedFormats(h, r) ==
  [exc |-> r.exc, h |-> [h EXCEPT !.message_formats = r.formats]]

\* headerComplete: "for (auto& it : _message_formats)"
ResolveMessageFormats(h) ==
  ResolvedFormats(h, ResolveAllFormats(h.message_formats,
                                       DOMAIN h.message_formats))

\* headerComplete: the loop over one of the maps of info or parameter
\* messages, not reached when an earlier loop has thrown
ResolveMapMember(s, member) ==
  IF s.exc # "none" THEN s
  ELSE ResolvedMember(s.h, member,
         ResolveMapFields(s.h.message_formats, s.h[member],
                          DOMAIN s.h[member]))

\* headerComplete: "for (auto& it : _message_info_multi)"
ResolveMessageInfoMulti(s) ==
  IF s.exc # "none" THEN s
  ELSE ResolvedMember(s.h, "message_info_multi",
         ResolveMultiFields(s.h.message_formats, s.h.message_info_multi,
                            DOMAIN s.h.message_info_multi))

\* headerComplete: "for (auto& parameter_value : _changed_parameters)"
ResolveChangedParameters(s) ==
  IF s.exc # "none" THEN s
  ELSE ResolvedMember(s.h, "changed_parameters",
         ResolveSeqFields(s.h.message_formats, s.h.changed_parameters, 1))

\* headerComplete: "_header_complete = true", not reached after a throw
HeaderCompleted(s) ==
  IF s.exc # "none" THEN Raised(s.h)
  ELSE Returned([s.h EXCEPT !.header_complete = TRUE])

\* DataContainer::headerComplete
DataContainerHeaderComplete(h) ==
  HeaderCompleted(
    ResolveChangedParameters(
      ResolveMapMember(
        ResolveMapMember(
          ResolveMessageInfoMulti(
            ResolveMapMember(ResolveMessageFormats(h), "message_info")),
          "default_parameters"),
        "initial_parameters")))

DataContainerFileHeader(h, header) == Returned([h EXCEPT !.file_header = header])

\* "if (_header_complete) field().resolveDefinition(_message_formats, 0)"
ResolveIfComplete(h, field) ==
  IF h.header_complete THEN ResolveField(h.message_formats, field, 0)
  ELSE [exc |-> "none", formats |-> h.message_formats, field |-> field]

\* DataContainer::messageInfo behind "resolveDefinition", which ended as r
StoreMessageInfo(h, message_info_arg, r) ==
  LET h1 == [h EXCEPT !.message_formats = r.formats]
      message_info == [message_info_arg EXCEPT !.field = r.field]
      name == message_info.field.name
      messages == IF name \in DOMAIN h1.message_info_multi
                  THEN h1.message_info_multi[name] ELSE <<>>
      created == [h1 EXCEPT !.message_info_multi = MapInsert(@, name, <<>>)]
  IN IF r.exc # "none" THEN Raised(h1)
     ELSE IF h.header_complete /\ h.storage_config = "Header" THEN Returned(h1)
     ELSE IF message_info.is_multi
       THEN IF message_info.continued
            THEN IF messages = <<>> THEN Raised(created)
                 ELSE Returned([created EXCEPT
                        !.message_info_multi[name][Len(messages)] =
                          Append(@, message_info)])
            ELSE Returned([created EXCEPT
                   !.message_info_multi[name] = Append(@, <<message_info>>)])
     ELSE Returned([h1 EXCEPT
            !.message_info = MapInsert(@, name, message_info)])

\* DataContainer::messageInfo
DataContainerMessageInfo(h, message_info_arg) ==
  StoreMessageInfo(h, message_info_arg,
                   ResolveIfComplete(h, message_info_arg.field))

\* DataContainer::messageFormat
DataContainerMessageFormat(h, message_format) ==
  IF message_format.name \in DOMAIN h.message_formats THEN Raised(h)
  ELSE Returned([h EXCEPT
         !.message_formats = MapInsert(@, message_format.name, message_format)])

\* DataContainer::parameter behind "resolveDefinition", which ended as r
StoreChangedParameter(h, parameter_arg, r) ==
  IF r.exc # "none" THEN Raised([h EXCEPT !.message_formats = r.formats])
  ELSE Returned([h EXCEPT
         !.message_formats = r.formats,
         !.changed_parameters =
           Append(@, [parameter_arg EXCEPT !.field = r.field])])

\* a parameter() that takes every parameter for an initial one
DataContainerParameterAlwaysInitial(h, parameter_arg) ==
  Returned([h EXCEPT !.initial_parameters =
    MapInsert(@, parameter_arg.field.name, parameter_arg)])

\* DataContainer::parameter
DataContainerParameter(h, parameter_arg) ==
  IF h.header_complete /\ h.storage_config = "Header" THEN Returned(h)
  ELSE IF h.header_complete
    THEN StoreChangedParameter(
           h, parameter_arg,
           ResolveField(h.message_formats, parameter_arg.field, 0))
  ELSE Returned([h EXCEPT !.initial_parameters =
         MapInsert(@, parameter_arg.field.name, parameter_arg)])

\* DataContainer::parameterDefault behind "resolveDefinition", which ended
\* as r
StoreParameterDefault(h, parameter_default_arg, r) ==
  IF r.exc # "none" THEN Raised([h EXCEPT !.message_formats = r.formats])
  ELSE Returned([h EXCEPT
         !.message_formats = r.formats,
         !.default_parameters =
           MapInsert(@, r.field.name,
                     [parameter_default_arg EXCEPT !.field = r.field])])

\* DataContainer::parameterDefault
DataContainerParameterDefault(h, parameter_default_arg) ==
  StoreParameterDefault(h, parameter_default_arg,
                        ResolveIfComplete(h, parameter_default_arg.field))

\* an addLoggedMessage that stores the subscription in every storage
\* configuration
AddLoggedMessageAlwaysStored(h, add_logged_message) ==
  IF add_logged_message.msg_id \in DOMAIN h.subscriptions_by_message_id
  THEN Raised(h)
  ELSE IF add_logged_message.message_name \notin DOMAIN h.message_formats
    THEN Raised(h)
  ELSE Returned([h EXCEPT
         !.subscriptions_by_message_id =
           MapInsert(@, add_logged_message.msg_id,
                     [add_logged_message |-> add_logged_message,
                      samples |-> <<>>,
                      format |-> add_logged_message.message_name]),
         !.subscriptions_by_name_and_multi_id =
           MapInsert(@, <<add_logged_message.message_name,
                          add_logged_message.multi_id>>,
                     add_logged_message.msg_id)])

\* DataContainer::addLoggedMessage; the two indexes share the Subscription
\* object, which the by-name index refers to by the msg_id it was made for
DataContainerAddLoggedMessage(h, add_logged_message) ==
  IF h.header_complete /\ h.storage_config = "Header" THEN Returned(h)
  ELSE IF add_logged_message.msg_id \in DOMAIN h.subscriptions_by_message_id
    THEN Raised(h)
  ELSE IF add_logged_message.message_name \notin DOMAIN h.message_formats
    THEN Raised(h)
  ELSE Returned([h EXCEPT
         !.subscriptions_by_message_id =
           MapInsert(@, add_logged_message.msg_id,
                     [add_logged_message |-> add_logged_message,
                      samples |-> <<>>,
                      format |-> add_logged_message.message_name]),
         !.subscriptions_by_name_and_multi_id =
           MapInsert(@, <<add_logged_message.message_name,
                          add_logged_message.multi_id>>,
                     add_logged_message.msg_id)])

\* DataContainer::logging
DataContainerLogging(h, logging) ==
  IF h.header_complete /\ h.storage_config = "Header" THEN Returned(h)
  ELSE Returned([h EXCEPT !.logging = Append(@, logging)])

\* a data() that keeps the newest sample of a subscription only
DataContainerDataNewestOnly(h, data) ==
  IF h.storage_config = "Header" THEN Returned(h)
  ELSE IF data.msg_id \notin DOMAIN h.subscriptions_by_message_id
    THEN Raised(h)
  ELSE Returned([h EXCEPT
         !.subscriptions_by_message_id[data.msg_id].samples = <<data>>])

\* DataContainer::data
DataContainerData(h, data) ==
  IF h.storage_config = "Header" THEN Returned(h)
  ELSE IF data.msg_id \notin DOMAIN h.subscriptions_by_message_id
    THEN Raised(h)
  ELSE Returned([h EXCEPT
         !.subscriptions_by_message_id[data.msg_id].samples = Append(@, data)])

\* DataContainer::dropout
DataContainerDropout(h, dropout) ==
  IF h.header_complete /\ h.storage_config = "Header" THEN Returned(h)
  ELSE Returned([h EXCEPT !.dropouts = Append(@, dropout)])

---------------------------------------------------------------------------
(* Writer: the handler that serializes what it is given to its DataWriteCB. *)

\* Writer(DataWriteCB); written is what the callback has received
Writer == [kind |-> "Writer", header_complete |-> FALSE, written |-> <<>>]

\* the call of serialize() from a Writer method
WriterEmit(h, serialized) ==
  IF serialized.exc # "none" THEN [exc |-> serialized.exc, h |-> h]
  ELSE Returned([h EXCEPT !.written = @ \o serialized.bytes])

WriterHeaderComplete(h) == Returned([h EXCEPT !.header_complete = TRUE])
WriterFileHeader(h, header) == WriterEmit(h, FileHeaderSerialize(header))
WriterMessageInfo(h, message_info) ==
  WriterEmit(h, MessageInfoSerialize(message_info, ULogMessageType.INFO))
WriterMessageFormat(h, message_format) ==
  IF h.header_complete THEN Raised(h)
  ELSE WriterEmit(h, MessageFormatSerialize(message_format))
WriterParameter(h, parameter) ==
  WriterEmit(h, MessageInfoSerialize(parameter, ULogMessageType.PARAMETER))
WriterParameterDefault(h, parameter_default) ==
  WriterEmit(h, ParameterDefaultSerialize(parameter_default))
WriterAddLoggedMessage(h, add_logged_message) ==
  IF ~h.header_complete THEN Raised(h)
  ELSE WriterEmit(h, AddLoggedMessageSerialize(add_logged_message))
WriterLogging(h, logging) == WriterEmit(h, LoggingSerialize(logging))
WriterData(h, data) == WriterEmit(h, DataSerialize(data))
WriterDropout(h, dropout) == WriterEmit(h, DropoutSerialize(dropout))
WriterSync(h) == WriterEmit(h, SyncSerialize)

---------------------------------------------------------------------------
(* DataHandlerInterface: the virtual call of one method on the handler the  *)
(* Reader was given.  Methods a class does not override do nothing.         *)

DataHandlerInterface(h, method, arg) ==
  IF h.kind = "DataContainer"
  THEN CASE method = "error" ->
              DataContainerError(h, arg.msg, arg.is_recoverable)
         [] method = "headerComplete" -> DataContainerHeaderComplete(h)
         [] method = "fileHeader" -> DataContainerFileHeader(h, arg)
         [] method = "messageInfo" -> DataContainerMessageInfo(h, arg)
         [] method = "messageFormat" -> DataContainerMessageFormat(h, arg)
         [] method = "parameter" -> DataContainerParameter(h, arg)
         [] method = "parameterDefault" -> DataContainerParameterDefault(h, arg)
         [] method = "addLoggedMessage" -> DataContainerAddLoggedMessage(h, arg)
         [] method = "logging" -> DataContainerLogging(h, arg)
         [] method = "data" -> DataContainerData(h, arg)
         [] method = "dropout" -> DataContainerDropout(h, arg)
         [] OTHER -> Returned(h)
  ELSE CASE method = "headerComplete" -> WriterHeaderComplete(h)
         [] method = "fileHeader" -> WriterFileHeader(h, arg)
         [] method = "messageInfo" -> WriterMessageInfo(h, arg)
         [] method = "messageFormat" -> WriterMessageFormat(h, arg)
         [] method = "parameter" -> WriterParameter(h, arg)
         [] method = "parameterDefault" -> WriterParameterDefault(h, arg)
         [] method = "addLoggedMessage" -> WriterAddLoggedMessage(h, arg)
         [] method = "logging" -> WriterLogging(h, arg)
         [] method = "data" -> WriterData(h, arg)
         [] method = "dropout" -> WriterDropout(h, arg)
         [] method = "sync" -> WriterSync(h)
         [] OTHER -> Returned(h)

---------------------------------------------------------------------------
(* Reader.  A call of readChunk is computed on a context: the Reader's      *)
(* fields r, the handler h, the handler calls made, the chunk still to be   *)
(* consumed (data, length), the return value of the helper just called,     *)
(* the exception in flight (thrown) and the one that left readChunk.        *)

kBufferSizeInit == 2048

\* Reader(data_handler_interface) on a little-endian machine
Reader ==
  [state |-> "ReadMagic", partial_message_buffer |-> <<>>,
   partial_message_buffer_length_capacity |-> kBufferSizeInit,
   need_recovery |-> FALSE, corruption_reported |-> FALSE,
   total_num_read |-> 0, file_header |-> RawFileHeader(Zeros(FileHeaderLen))]

kKnownMessageTypes ==
  {ULogMessageType.FORMAT, ULogMessageType.DATA, ULogMessageType.INFO,
   ULogMessageType.INFO_MULTIPLE, ULogMessageType.PARAMETER,
   ULogMessageType.PARAMETER_DEFAULT, ULogMessageType.ADD_LOGGED_MSG,
   ULogMessageType.REMOVE_LOGGED_MSG, ULogMessageType.SYNC,
   ULogMessageType.DROPOUT, ULogMessageType.LOGGING,
   ULogMessageType.LOGGING_TAGGED, ULogMessageType.FLAG_BITS}

NoArg == [kind |-> "none"]
ErrorArg(text, is_recoverable) ==
  [kind |-> "error", msg |-> text, is_recoverable |-> is_recoverable]

\* the call of method has left the handler as r.h, returning or throwing
Called(cx, method, arg, r) ==
  [cx EXCEPT !.h = r.h, !.thrown = r.exc,
             !.calls = Append(@, [method |-> method, arg |-> arg])]

\* _data_handler_interface->method(arg)
Call(cx, method, arg) ==
  Called(cx, method, arg, DataHandlerInterface(cx.h, method, arg))

\* a constructor from raw bytes, then the handler method on its result
Deliver(cx, parsed, method) ==
  IF parsed.exc # "none" THEN [cx EXCEPT !.thrown = parsed.exc]
  ELSE Call(cx, method, parsed.obj)

\* data += n; length -= n; _total_num_read += n
Advance(cx, n) ==
  [cx EXCEPT !.data = SubSeq(@, n + 1, Len(@)), !.length = @ - n,
             !.r.total_num_read = @ + n]

\* data += num_read; length -= num_read; _total_num_read += num_read
AdvanceRead(cx) == Advance(cx, cx.ret)

\* variant of corruptionDetected that reports every time it is entered
corruptionDetectedEveryTime(cx) ==
  [Call(cx, "error", ErrorArg("Message corruption detected", TRUE))
     EXCEPT !.r.corruption_reported = TRUE, !.r.need_recovery = TRUE,
            !.episodes = @ + 1]

\* Reader::corruptionDetected
corruptionDetected(cx) ==
  LET reported ==
        IF ~cx.r.corruption_reported
        THEN [Call(cx, "error", ErrorArg("Message corruption detected", TRUE))
                EXCEPT !.r.corruption_reported = TRUE]
        ELSE cx
  IN [reported EXCEPT !.r.need_recovery = TRUE, !.episodes = @ + 1]

\* Reader::appendToPartialBuffer
appendToPartialBuffer(cx) ==
  LET num_append ==
        Min(cx.length, cx.r.partial_message_buffer_length_capacity -
                       Len(cx.r.partial_message_buffer))
  IN [cx EXCEPT !.r.partial_message_buffer = @ \o SubSeq(cx.data, 1, num_append),
                !.ret = num_append]

\* Reader::readMagic
readMagic(cx) ==
  IF cx.length < FileHeaderLen
  THEN [Call(cx, "error", ErrorArg("Not enough data to read file magic", FALSE))
          EXCEPT !.r.state = "InvalidData", !.ret = 0]
  ELSE IF SubSeq(cx.data, 1, Len(ulog_file_magic_bytes)) # ulog_file_magic_bytes
    THEN [Call(cx, "error",
               ErrorArg("Invalid file format (incorrect header bytes)", FALSE))
            EXCEPT !.r.state = "InvalidData", !.ret = 0]
  ELSE [cx EXCEPT !.r.state = "ReadFlagBits",
                  !.r.file_header = RawFileHeader(cx.data),
                  !.ret = FileHeaderLen]

\* a readFlagBitsMessage that looks at the first incompat byte only
readFlagBitsMessageFirstByte(cx, flag_bits, appended) ==
  IF flag_bits.incompat_flags[1] \div
       (2 * ULOG_INCOMPAT_FLAG0_DATA_APPENDED_MASK) # 0
  THEN [Call(appended, "error",
             ErrorArg("Unknown incompatible flag set: cannot parse the log",
                      FALSE))
          EXCEPT !.r.state = "InvalidData", !.ret = 0]
  ELSE [Call(appended, "fileHeader",
             FileHeaderRaw(cx.r.file_header, flag_bits, TRUE))
          EXCEPT !.r.state = "ReadHeader",
                 !.ret = flag_bits.msg_size + ULOG_MSG_HEADER_LEN]

\* readFlagBits: the flag-bits message is there; appended is the context
\* after the test of the appended offsets
readFlagBitsMessage(cx, flag_bits, appended) ==
  LET has_incompat_flags ==
        \/ flag_bits.incompat_flags[1] \div
             (2 * ULOG_INCOMPAT_FLAG0_DATA_APPENDED_MASK) # 0
        \/ \E i \in 2..8 : flag_bits.incompat_flags[i] # 0
  IN IF has_incompat_flags
     THEN [Call(appended, "error",
                ErrorArg("Unknown incompatible flag set: cannot parse the log",
                         FALSE))
             EXCEPT !.r.state = "InvalidData", !.ret = 0]
     ELSE [Call(appended, "fileHeader",
                FileHeaderRaw(cx.r.file_header, flag_bits, TRUE))
             EXCEPT !.r.state = "ReadHeader",
                    !.ret = flag_bits.msg_size + ULOG_MSG_HEADER_LEN]

\* Reader::readFlagBits
readFlagBits(cx) ==
  LET flag_bits == RawFlagBits(cx.data)
  IN IF cx.length < FlagBitsLen
     THEN [Call(cx, "error", ErrorArg("Not enough data to read file flags", FALSE))
             EXCEPT !.r.state = "InvalidData", !.ret = 0]
     ELSE IF flag_bits.msg_type = ULogMessageType.FLAG_BITS
       THEN readFlagBitsMessage(
              cx, flag_bits,
              IF SubSeq(flag_bits.appended_offsets, 1, 8) # Zeros(8)
              THEN Call(cx, "error",
                        ErrorArg("File contains appended offsets - this is not supported",
                                 TRUE))
              ELSE cx)
     ELSE [Call(cx, "fileHeader",
                FileHeaderRaw(cx.r.file_header, DefaultFlagBits, FALSE))
             EXCEPT !.r.state = "ReadHeader", !.ret = 0]

\* a readHeaderMessage that enters the data section without telling the
\* handler
readHeaderMessageSilently(cx, message) ==
  LET msg_type == MsgType(message, 1)
  IN CASE msg_type = ULogMessageType.INFO ->
            Deliver(cx, MessageInfoFromBytes(message, FALSE), "messageInfo")
       [] msg_type = ULogMessageType.INFO_MULTIPLE ->
            Deliver(cx, MessageInfoFromBytes(message, TRUE), "messageInfo")
       [] msg_type = ULogMessageType.FORMAT ->
            Deliver(cx, MessageFormatFromBytes(message), "messageFormat")
       [] msg_type = ULogMessageType.PARAMETER ->
            Deliver(cx, MessageInfoFromBytes(message, FALSE), "parameter")
       [] msg_type = ULogMessageType.PARAMETER_DEFAULT ->
            Deliver(cx, ParameterDefaultFromBytes(message), "parameterDefault")
       [] msg_type \in {ULogMessageType.ADD_LOGGED_MSG, ULogMessageType.LOGGING,
                        ULogMessageType.LOGGING_TAGGED} ->
            [cx EXCEPT !.r.state = "ReadData"]
       [] OTHER -> cx

\* Reader::readHeaderMessage
readHeaderMessage(cx, message) ==
  LET msg_type == MsgType(message, 1)
  IN CASE msg_type = ULogMessageType.INFO ->
            Deliver(cx, MessageInfoFromBytes(message, FALSE), "messageInfo")
       [] msg_type = ULogMessageType.INFO_MULTIPLE ->
            Deliver(cx, MessageInfoFromBytes(message, TRUE), "messageInfo")
       [] msg_type = ULogMessageType.FORMAT ->
            Deliver(cx, MessageFormatFromBytes(message), "messageFormat")
       [] msg_type = ULogMessageType.PARAMETER ->
            Deliver(cx, MessageInfoFromBytes(message, FALSE), "parameter")
       [] msg_type = ULogMessageType.PARAMETER_DEFAULT ->
            Deliver(cx, ParameterDefaultFromBytes(message), "parameterDefault")
       [] msg_type \in {ULogMessageType.ADD_LOGGED_MSG, ULogMessageType.LOGGING,
                        ULogMessageType.LOGGING_TAGGED} ->
            Call([cx EXCEPT !.r.state = "ReadData"], "headerComplete", NoArg)
       [] OTHER -> cx

\* Reader::readDataMessage
readDataMessage(cx, message) ==
  LET msg_type == MsgType(message, 1)
  IN CASE msg_type = ULogMessageType.INFO ->
            Deliver(cx, MessageInfoFromBytes(message, FALSE), "messageInfo")
       [] msg_type = ULogMessageType.INFO_MULTIPLE ->
            Deliver(cx, MessageInfoFromBytes(message, TRUE), "messageInfo")
       [] msg_type = ULogMessageType.PARAMETER ->
            Deliver(cx, MessageInfoFromBytes(message, FALSE), "parameter")
       [] msg_type = ULogMessageType.PARAMETER_DEFAULT ->
            Deliver(cx, ParameterDefaultFromBytes(message), "parameterDefault")
       [] msg_type = ULogMessageType.ADD_LOGGED_MSG ->
            Deliver(cx, AddLoggedMessageFromBytes(message), "addLoggedMessage")
       [] msg_type = ULogMessageType.LOGGING ->
            Deliver(cx, LoggingFromBytes(message, FALSE), "logging")
       [] msg_type = ULogMessageType.LOGGING_TAGGED ->
            Deliver(cx, LoggingFromBytes(message, TRUE), "logging")
       [] msg_type = ULogMessageType.DATA ->
            Deliver(cx, DataFromBytes(message), "data")
       [] msg_type = ULogMessageType.DROPOUT ->
            Deliver(cx, DropoutFromBytes(message), "dropout")
       [] msg_type = ULogMessageType.SYNC ->
            Deliver(cx, SyncFromBytes(message), "sync")
       [] OTHER -> cx

\* readChunk: "if (_state == State::ReadHeader) readHeaderMessage(...)"
ParseInReadHeader(cx, message) ==
  IF cx.r.state = "ReadHeader" THEN readHeaderMessage(cx, message) ELSE cx

\* readChunk: "if (_state == State::ReadData) readDataMessage(...)", not
\* reached when readHeaderMessage has thrown
ParseInReadData(header, message) ==
  IF header.thrown = "none" /\ header.r.state = "ReadData"
  THEN readDataMessage(header, message) ELSE header

\* readChunk: "catch (const ParsingException&)"
Catch(parsed) ==
  IF parsed.thrown = "ParsingException"
  THEN corruptionDetected([parsed EXCEPT !.thrown = "none"])
  ELSE IF parsed.thrown # "none"
    THEN [parsed EXCEPT !.escaped = parsed.thrown, !.thrown = "none"]
  ELSE parsed

\* readChunk: "if (ulog_message) { ... }" up to the clearing of the buffer;
\* only a ParsingException is caught, any other leaves readChunk
ParseMessage(cx, message) ==
  IF MsgSize(message, 1) = 0 \/ MsgType(message, 1) = 0
  THEN corruptionDetected(cx)
  ELSE Catch(ParseInReadData(ParseInReadHeader(cx, message), message))

\* variant of the lambda that appends without moving on in data
ensure_enough_data_without_advance(cx, required_data) ==
  LET len == Len(cx.r.partial_message_buffer)
      num_append == Min(required_data - len, cx.length)
  IN IF len < required_data
     THEN [cx EXCEPT
             !.r.partial_message_buffer = @ \o SubSeq(cx.data, 1, num_append),
             !.length = @ - num_append,
             !.r.total_num_read = @ + num_append]
     ELSE cx

\* a lambda that appends nothing
ensure_enough_data_without_append(cx, required_data) == cx

\* readChunk: the lambda ensure_enough_data_in_partial_buffer
ensure_enough_data_in_partial_buffer(cx, required_data) ==
  LET len == Len(cx.r.partial_message_buffer)
      num_append == Min(required_data - len, cx.length)
  IN IF len < required_data
     THEN Advance(
            [cx EXCEPT
               !.r.partial_message_buffer_length_capacity =
                 IF len + num_append > @ THEN len + num_append ELSE @,
               !.r.partial_message_buffer = @ \o SubSeq(cx.data, 1, num_append)],
            num_append)
     ELSE cx

\* readChunk: no full message yet, ulog_message stays nullptr
NoMessage(cx) ==
  [cx EXCEPT !.ulog_message = <<>>,
             !.clear_from_partial_message_buffer = FALSE]

\* readChunk: the partial buffer, once
\* ensure_enough_data_in_partial_buffer(msg_size + kULogHeaderLength) has run
BufferedMessage(full, num_remove) ==
  IF Len(full.r.partial_message_buffer) < num_remove THEN NoMessage(full)
  ELSE [full EXCEPT
          !.ulog_message = SubSeq(full.r.partial_message_buffer, 1, num_remove),
          !.clear_from_partial_message_buffer = TRUE]

\* readChunk: the partial buffer, once
\* ensure_enough_data_in_partial_buffer(kULogHeaderLength) has run
BufferedHeader(h3) ==
  IF Len(h3.r.partial_message_buffer) < ULOG_MSG_HEADER_LEN THEN NoMessage(h3)
  ELSE BufferedMessage(
         ensure_enough_data_in_partial_buffer(
           h3, MsgSize(h3.r.partial_message_buffer, 1) + ULOG_MSG_HEADER_LEN),
         MsgSize(h3.r.partial_message_buffer, 1) + ULOG_MSG_HEADER_LEN)

\* readChunk: no partial data left, use data if it holds a full message
DirectMessage(cx) ==
  LET full_message_length ==
        IF /\ cx.length > ULOG_MSG_HEADER_LEN
           /\ cx.length >= MsgSize(cx.data, 1) + ULOG_MSG_HEADER_LEN
        THEN MsgSize(cx.data, 1) + ULOG_MSG_HEADER_LEN ELSE 0
  IN IF full_message_length > 0
     THEN [Advance(cx, full_message_length) EXCEPT
             !.ulog_message = SubSeq(cx.data, 1, full_message_length),
             !.clear_from_partial_message_buffer = FALSE]
     ELSE NoMessage(AdvanceRead(appendToPartialBuffer(cx)))

\* readChunk: "Try to get a full ulog message"
TryToGetMessage(cx) ==
  IF Len(cx.r.partial_message_buffer) > 0
  THEN BufferedHeader(
         ensure_enough_data_in_partial_buffer(cx, ULOG_MSG_HEADER_LEN))
  ELSE DirectMessage(cx)

\* readChunk: "if (clear_from_partial_message_buffer)"; an exception other
\* than ParsingException has left readChunk before
ClearFromPartialBuffer(done, num_remove) ==
  IF done.escaped # "none" \/ ~done.clear_from_partial_message_buffer
  THEN done
  ELSE [done EXCEPT !.r.partial_message_buffer =
                      SubSeq(@, num_remove + 1, Len(@))]

\* readChunk: "if (ulog_message) { ... }"
WithMessage(cx) ==
  IF cx.ulog_message = <<>> THEN cx
  ELSE ClearFromPartialBuffer(ParseMessage(cx, cx.ulog_message),
                              Len(cx.ulog_message))

\* readChunk: one pass of the body of "while (length > 0 && !_need_recovery)"
MessageLoopBody(cx) == WithMessage(TryToGetMessage(cx))

\* readChunk: "while (length > 0 && !_need_recovery)" goes on; an exception
\* that is not caught has left readChunk
InMessageLoop(cx) ==
  cx.length > 0 /\ ~cx.r.need_recovery /\ cx.escaped = "none"

\* a pass of a loop has taken input (data += n, length -= n) or has taken
\* bytes out of _partial_message_buffer
Progressed(before, after) ==
  \/ after.length < before.length
  \/ Len(after.r.partial_message_buffer) < Len(before.r.partial_message_buffer)

\* a pass that leaves the loop running with no input taken and no byte
\* removed: the loop does not end, and the run is followed no further
Stalled(after) == [after EXCEPT !.stalled = TRUE]

\* readChunk: "while (length > 0 && !_need_recovery) { ... }"
RECURSIVE MessageLoop(_)
MessageLoop(cx) ==
  IF cx.stalled \/ ~InMessageLoop(cx) THEN cx
  ELSE LET after == [MessageLoopBody(cx) EXCEPT !.message_iterations = @ + 1]
       IN IF InMessageLoop(after) /\ ~Progressed(cx, after)
          THEN Stalled(after)
          ELSE MessageLoop(after)

\* tryToRecover: "it looks sane"
LooksSane(buffer, index) ==
  /\ MsgSize(buffer, index + 1) # 0
  /\ MsgType(buffer, index + 1) # 0
  /\ MsgSize(buffer, index + 1) < 10000
  /\ MsgType(buffer, index + 1) \in kKnownMessageTypes

\* readChunk: "if (_state == State::ReadMagic)"
InReadMagic(cx) ==
  IF cx.r.state = "ReadMagic" THEN AdvanceRead(readMagic(cx)) ELSE cx

\* readChunk: "if (_state == State::ReadFlagBits && length > 0)"
InReadFlagBits(cx) ==
  IF cx.r.state = "ReadFlagBits" /\ cx.length > 0
  THEN AdvanceRead(readFlagBits(cx)) ELSE cx

RECURSIVE readChunk(_), tryToRecover(_), RecoveryGoesOn(_, _)

\* readChunk: "if (_need_recovery) tryToRecover(data, length)"
InNeedRecovery(cx) ==
  IF cx.r.need_recovery /\ cx.escaped = "none" /\ ~cx.stalled
  THEN tryToRecover(cx) ELSE cx

\* the entry into readChunk: one more of its invocations is on the stack
Entered(cx) ==
  [cx EXCEPT !.depth = @ + 1,
             !.deepest = IF cx.depth + 1 > @ THEN cx.depth + 1 ELSE @]

\* the return from readChunk
Left(cx) == [cx EXCEPT !.depth = @ - 1]

\* Reader::readChunk(data, length)
readChunk(cx) ==
  IF cx.r.state = "InvalidData" THEN Left(Entered(cx))
  ELSE Left(InNeedRecovery(MessageLoop(InReadFlagBits(InReadMagic(
              Entered(cx))))))

\* tryToRecover: the pass of "while (length > 0)" that began as cx goes on
\* to the next one as after
RecoveryGoesOn(cx, after) ==
  IF after.length > 0 /\ ~Progressed(cx, after) THEN Stalled(after)
  ELSE tryToRecover(after)

\* Reader::tryToRecover(data, length)
tryToRecover(cx) ==
  IF cx.length <= 0 THEN cx
  ELSE LET a == [appendToPartialBuffer(cx) EXCEPT
                   !.recovery_iterations = @ + 1,
                   !.full_on_entry =
                     IF Len(cx.r.partial_message_buffer) =
                          cx.r.partial_message_buffer_length_capacity
                     THEN @ + 1 ELSE @]
           appended == Advance(a, a.ret)
           buffer == appended.r.partial_message_buffer
           first == IF a.ret = 0 THEN 1 ELSE 0
           limit == Len(buffer) - ULOG_MSG_HEADER_LEN
           sane == {i \in first..(limit - 1) : LooksSane(buffer, i)}
           found == sane # {}
           index == IF found THEN CHOOSE i \in sane : \A j \in sane : i <= j
                    ELSE IF limit > first THEN limit ELSE first
           discarded ==
             [appended EXCEPT !.r.partial_message_buffer =
                                SubSeq(buffer, index + 1, Len(buffer))]
       IN IF Len(buffer) < ULOG_MSG_HEADER_LEN THEN RecoveryGoesOn(cx, appended)
          ELSE IF found
            THEN readChunk([discarded EXCEPT !.r.need_recovery = FALSE])
          ELSE RecoveryGoesOn(cx, discarded)

---------------------------------------------------------------------------
(* The logs fed to the Reader.  A log is a sequence of parts; a part is the *)
(* bytes of one message (or of inserted garbage) and the handler calls the  *)
(* Reader is to make once the part has been read.                           *)

HandlerCall(method, arg) == [method |-> method, arg |-> arg]

MessagePart(serialized, method, obj) ==
  [bytes |-> serialized.bytes, expect |-> <<HandlerCall(method, obj)>>]

\* the first message of type A, L or C: headerComplete() comes first
TriggerPart(serialized, method, obj) ==
  [bytes |-> serialized.bytes,
   expect |-> <<HandlerCall("headerComplete", NoArg), HandlerCall(method, obj)>>]

CorruptionError ==
  HandlerCall("error", ErrorArg("Message corruption detected", TRUE))

theFileHeader == FileHeader(7, FALSE)
formatM ==
  MessageFormat(Str("m"), <<Field(Str("uint8_t"), Str("x"), -1)>>)
formatNested ==
  MessageFormat(Str("m"), <<Field(Str("n"), Str("x"), -1)>>)
infoK == MessageInfoString(Str("k"), Str("v"))
parameterP ==
  MessageInfo(Field(Str("int32_t"), Str("p"), -1), <<1, 0, 0, 0>>, FALSE, FALSE)
addM == AddLoggedMessage(0, 1, Str("m"))
dataA == Data(1, <<10>>)
dataB == Data(1, <<11>>)
dataC == Data(1, <<12>>)
dataUnsubscribed == Data(9, <<13>>)
logHi == Logging(Level.Info, Str("hi"), 5)
logEmpty == Logging(Level.Info, <<>>, 5)
dropout3 == Dropout(3)
\* further subscriptions of "m": one of its own multi_id, and one that
\* repeats the (name, multi_id) of addM under another msg_id
addMulti == AddLoggedMessage(1, 2, Str("m"))
addAgain == AddLoggedMessage(0, 2, Str("m"))
dataSecond == Data(2, <<14>>)

HeaderPart ==
  MessagePart(FileHeaderSerialize(theFileHeader), "fileHeader", theFileHeader)
FormatPart == MessagePart(MessageFormatSerialize(formatM), "messageFormat", formatM)
NestedFormatPart ==
  MessagePart(MessageFormatSerialize(formatNested), "messageFormat", formatNested)
InfoPart ==
  MessagePart(MessageInfoSerialize(infoK, ULogMessageType.INFO), "messageInfo", infoK)
ParameterPart ==
  MessagePart(MessageInfoSerialize(parameterP, ULogMessageType.PARAMETER),
              "parameter", parameterP)
AddPart == MessagePart(AddLoggedMessageSerialize(addM), "addLoggedMessage", addM)
AddTrigger == TriggerPart(AddLoggedMessageSerialize(addM), "addLoggedMessage", addM)
DataPart(d) == MessagePart(DataSerialize(d), "data", d)
LogPart == MessagePart(LoggingSerialize(logHi), "logging", logHi)
DropoutPart == MessagePart(DropoutSerialize(dropout3), "dropout", dropout3)
SyncPart == MessagePart(SyncSerialize, "sync", Sync)
SecondAddPart(a) == MessagePart(AddLoggedMessageSerialize(a), "addLoggedMessage", a)

\* inserted garbage: the first corruption of a Reader is reported once
ZeroRun(n) == [bytes |-> Zeros(n), expect |-> <<CorruptionError>>]
\* a Sync message whose last magic byte is wrong
BadSync ==
  [bytes |-> [SyncSerialize.bytes EXCEPT ![ULOG_MSG_HEADER_LEN + 8] = 0],
   expect |-> <<CorruptionError>>]
\* a Data message for a msg_id no AddLoggedMessage has announced, which a
\* DataContainer refuses
UnsubscribedData ==
  [bytes |-> DataSerialize(dataUnsubscribed).bytes,
   expect |-> <<HandlerCall("data", dataUnsubscribed), CorruptionError>>]
\* a Logging message with an empty text, the first of the data phase
EmptyLogTrigger == TriggerPart(LoggingSerialize(logEmpty), "logging", logEmpty)
\* a format whose field has an empty array length: 'm:uint8_t[] x;'
BadArrayFormat ==
  [bytes |-> RawHeader(14, ULogMessageType.FORMAT) \o Str("m:uint8_t[] x;"),
   expect |-> <<>>]
\* a file header whose flag bits carry an unknown incompat flag
IncompatHeader ==
  [bytes |-> [HeaderPart.bytes EXCEPT ![FileHeaderLen + ULOG_MSG_HEADER_LEN + 9] = 2],
   expect |-> <<HandlerCall("error",
                  ErrorArg("Unknown incompatible flag set: cannot parse the log",
                           FALSE))>>]

\* the file header with the first incompat byte, the third incompat byte and
\* the low byte of appended_offsets[0] set as given
FlagsHeaderBytes(incompat0, incompat2, appended) ==
  [HeaderPart.bytes EXCEPT
     ![FileHeaderLen + ULOG_MSG_HEADER_LEN + 9] = incompat0,
     ![FileHeaderLen + ULOG_MSG_HEADER_LEN + 11] = incompat2,
     ![FileHeaderLen + ULOG_MSG_HEADER_LEN + 17] = appended]

\* the settings of the flag bits that the "flags" logs go through
FlagSettings ==
  <<[incompat0 |-> 1, incompat2 |-> 0, appended |-> 0],
    [incompat0 |-> 1, incompat2 |-> 0, appended |-> 9],
    [incompat0 |-> 0, incompat2 |-> 0, appended |-> 9],
    [incompat0 |-> 3, incompat2 |-> 0, appended |-> 0],
    [incompat0 |-> 0, incompat2 |-> 1, appended |-> 0],
    [incompat0 |-> 2, incompat2 |-> 0, appended |-> 9]>>

FlagsHeader(n) ==
  [bytes |-> FlagsHeaderBytes(FlagSettings[n].incompat0,
                              FlagSettings[n].incompat2,
                              FlagSettings[n].appended),
   expect |-> <<>>]

\* the 16 bytes of magic and timestamp, with no flag-bits message behind
MagicOnly ==
  [bytes |-> SubSeq(HeaderPart.bytes, 1, FileHeaderLen), expect |-> <<>>]

\* formats that nest each other in a circle: 'm:m x;', and 'a:b x;' with
\* 'b:a y;'
formatSelf == MessageFormat(Str("m"), <<Field(Str("m"), Str("x"), -1)>>)
formatA == MessageFormat(Str("a"), <<Field(Str("b"), Str("x"), -1)>>)
formatB == MessageFormat(Str("b"), <<Field(Str("a"), Str("y"), -1)>>)
addA == AddLoggedMessage(0, 1, Str("a"))
FormatOf(format) ==
  MessagePart(MessageFormatSerialize(format), "messageFormat", format)
AddTriggerOf(a) ==
  TriggerPart(AddLoggedMessageSerialize(a), "addLoggedMessage", a)

\* a flag-bits message that is longer than ulog_message_flag_bits_s, as a
\* later version of the format may write it: msg_size = 40 + extra
LongFlagsHeader(extra) ==
  [bytes |-> [HeaderPart.bytes EXCEPT
                ![FileHeaderLen + 1] = FlagBitsLen - ULOG_MSG_HEADER_LEN + extra]
             \o Zeros(extra),
   expect |-> <<>>]

\* a log message that is longer than the reassembly buffer is at first
logLong ==
  Logging(Level.Info, [i \in 1..(2 * kBufferSizeInit) |-> Chr.a], 5)
LongLogPart == MessagePart(LoggingSerialize(logLong), "logging", logLong)

\* n corrupt messages, each with a good one behind it
RECURSIVE EpisodeParts(_)
EpisodeParts(n) ==
  IF n = 0 THEN <<>>
  ELSE EpisodeParts(n - 1) \o
       <<BadSync, DataPart(IF n % 2 = 1 THEN dataB ELSE dataC)>>

Scenarios ==
  {[name |-> nm, n |-> 0] :
     nm \in {"valid", "two_episodes", "missing_nested", "zero_file",
             "incompat", "bad_array", "empty_log"}}
  \cup {[name |-> "zero_run", n |-> n] : n \in 1..MaxZeros}
  \cup {[name |-> "bad_message", n |-> n] : n \in 1..2}

Parts(sc) ==
  CASE sc.name = "valid" ->
         <<HeaderPart, FormatPart, InfoPart, ParameterPart, AddTrigger,
           DataPart(dataA), LogPart, DropoutPart, SyncPart, DataPart(dataB)>>
    [] sc.name = "zero_run" ->
         <<HeaderPart, FormatPart, InfoPart, ZeroRun(sc.n), AddTrigger,
           DataPart(dataA), LogPart, DataPart(dataB)>>
    [] sc.name = "bad_message" ->
         <<HeaderPart, FormatPart, AddTrigger, DataPart(dataA),
           IF sc.n = 1 THEN BadSync ELSE UnsubscribedData,
           DataPart(dataB), LogPart>>
    [] sc.name = "two_episodes" ->
         <<HeaderPart, FormatPart, AddTrigger, DataPart(dataA), BadSync,
           DataPart(dataB), BadSync, DataPart(dataC)>>
    [] sc.name = "missing_nested" ->
         <<HeaderPart, NestedFormatPart, AddTrigger, DataPart(dataA)>>
    [] sc.name = "zero_file" -> <<[bytes |-> Zeros(20), expect |-> <<>>]>>
    [] sc.name = "incompat" -> <<IncompatHeader, FormatPart, AddTrigger>>
    [] sc.name = "bad_array" -> <<HeaderPart, BadArrayFormat, AddTrigger>>
    [] sc.name = "empty_log" ->
         <<HeaderPart, FormatPart, EmptyLogTrigger, AddPart, DataPart(dataA)>>
    [] sc.name = "header_only" -> <<HeaderPart>>
    [] sc.name = "episodes" ->
         <<HeaderPart, FormatPart, AddTrigger, DataPart(dataA)>>
         \o EpisodeParts(sc.n) \o <<LongLogPart>>
    [] sc.name = "zero_flood" ->
         <<HeaderPart, FormatPart, ZeroRun(2 * kBufferSizeInit + sc.n),
           AddTrigger, DataPart(dataA)>>
    [] sc.name = "long_flags" ->
         <<LongFlagsHeader(sc.n), FormatPart, AddTrigger, DataPart(dataA)>>
    [] sc.name = "flags" ->
         <<FlagsHeader(sc.n), FormatPart, InfoPart, ParameterPart, AddTrigger,
           DataPart(dataA), LogPart, DataPart(dataB)>>
    [] sc.name = "no_flags" ->
         <<MagicOnly, FormatPart, InfoPart, ParameterPart, AddTrigger,
           DataPart(dataA), LogPart, DataPart(dataB)>>
    [] sc.name = "cycle" ->
         IF sc.n = 1
         THEN <<HeaderPart, FormatOf(formatSelf), AddTrigger, DataPart(dataA)>>
         ELSE <<HeaderPart, FormatOf(formatA), FormatOf(formatB),
                AddTriggerOf(addA), DataPart(dataA)>>
    [] sc.name = "stored" ->
         <<HeaderPart, FormatPart, InfoPart, ParameterPart, AddTrigger,
           SecondAddPart(IF sc.n = 1 THEN addMulti ELSE addAgain),
           DataPart(dataA), DataPart(dataSecond), LogPart, DropoutPart,
           ParameterPart, InfoPart>>

RECURSIVE Bytes(_, _)
Bytes(parts, upto) ==
  IF upto = 0 THEN <<>> ELSE Bytes(parts, upto - 1) \o parts[upto].bytes

StreamOf(sc) == Bytes(Parts(sc), Len(Parts(sc)))

\* the offset in the stream at which part i ends
EndOf(sc, i) == Len(Bytes(Parts(sc), i))

\* the calls announced by the parts that lie wholly within the first n bytes
RECURSIVE Expected(_, _, _)
Expected(sc, n, upto) ==
  IF upto = 0 THEN <<>>
  ELSE Expected(sc, n, upto - 1) \o
       (IF EndOf(sc, upto) <= n THEN Parts(sc)[upto].expect ELSE <<>>)

ExpectedCalls(sc, n) == Expected(sc, n, Len(Parts(sc)))

---------------------------------------------------------------------------
(* The reader as a state machine: the caller constructs a handler and a     *)
(* Reader and passes the log to readChunk, chunk after chunk.               *)

HandlerKinds == {"DataContainer", "Writer"}

NewHandler(kind) ==
  IF kind = "Writer" THEN Writer
  ELSE IF kind = "DataContainerHeader" THEN DataContainer("Header")
  ELSE DataContainer("FullLog")

\* the context of a readChunk(data, length) call
Context(r, h, made, count, data) ==
  [r |-> r, h |-> h, calls |-> made, episodes |-> count, data |-> data,
   length |-> Len(data), ret |-> 0, thrown |-> "none", escaped |-> "none",
   ulog_message |-> <<>>, clear_from_partial_message_buffer |-> FALSE,
   depth |-> 0, deepest |-> 0, message_iterations |-> 0,
   recovery_iterations |-> 0, full_on_entry |-> 0, stalled |-> FALSE]

\* the whole of data passed to a fresh Reader in one readChunk call
ReadAll(kind, data) ==
  readChunk(Context(Reader, NewHandler(kind), <<>>, 0, data))

Pending == [exc |-> "pending"]

CodecIdle == msg = NoArg /\ wire = <<>> /\ decoded = Pending

AccessIdle == view = NoArg /\ path = <<>> /\ result = Pending

SimpleIdle == simple = NoArg /\ last = NoArg

Init ==
  /\ scenario \in Scenarios
  /\ handlerKind \in HandlerKinds
  /\ stream = StreamOf(scenario)
  /\ fed = 0
  /\ firstChunk = 0
  /\ lastChunk = 0
  /\ reader = Reader
  /\ handler = NewHandler(handlerKind)
  /\ calls = <<>>
  /\ escaped = "none"
  /\ episodes = 0
  /\ CodecIdle
  /\ AccessIdle
  /\ SimpleIdle

\* the chunk lengths a caller uses: short ones, the file header with its
\* flag bits, and all that is left
ChunkLengths ==
  (1..MaxChunk) \cup {FileHeaderLen + FlagBitsLen, Len(stream) - fed}

\* reader.readChunk(stream + fed, length)
FeedChunk(length) ==
  /\ escaped = "none"
  /\ length >= 1
  /\ fed + length <= Len(stream)
  /\ \E cx \in {readChunk(Context(reader, handler, calls, episodes,
                                   SubSeq(stream, fed + 1, fed + length)))} :
       /\ reader' = cx.r
       /\ handler' = cx.h
       /\ calls' = cx.calls
       /\ episodes' = cx.episodes
       /\ escaped' = cx.escaped
  /\ fed' = fed + length
  /\ firstChunk' = IF firstChunk = 0 THEN length ELSE firstChunk
  /\ lastChunk' = length
  /\ UNCHANGED <<scenario, stream, handlerKind, msg, wire, decoded>>
  /\ UNCHANGED <<accessVars, simpleVars>>

Next == \E length \in ChunkLengths : FeedChunk(length)

Spec == Init /\ [][Next]_vars

\* well-formed logs with two subscriptions and every kind of data-phase
\* message, read into a DataContainer of either storage configuration
StoredScenarios == {[name |-> "stored", n |-> n] : n \in 1..2}

InitStored ==
  /\ scenario \in StoredScenarios
  /\ handlerKind \in {"DataContainer", "DataContainerHeader"}
  /\ stream = StreamOf(scenario)
  /\ fed = 0
  /\ firstChunk = 0
  /\ lastChunk = 0
  /\ reader = Reader
  /\ handler = NewHandler(handlerKind)
  /\ calls = <<>>
  /\ escaped = "none"
  /\ episodes = 0
  /\ CodecIdle
  /\ AccessIdle
  /\ SimpleIdle

SpecStored == InitStored /\ [][Next]_vars

\* logs that differ in their header: the file header alone, the settings of
\* the flag bits, no flag-bits message at all, and formats that nest each
\* other in a circle
HeaderScenarios ==
  {[name |-> "header_only", n |-> 0], [name |-> "no_flags", n |-> 0]}
  \cup {[name |-> "flags", n |-> n] : n \in 1..Len(FlagSettings)}
  \cup {[name |-> "cycle", n |-> n] : n \in 1..2}

InitHeaders ==
  /\ scenario \in HeaderScenarios
  /\ handlerKind = "DataContainer"
  /\ stream = StreamOf(scenario)
  /\ fed = 0
  /\ firstChunk = 0
  /\ lastChunk = 0
  /\ reader = Reader
  /\ handler = NewHandler(handlerKind)
  /\ calls = <<>>
  /\ escaped = "none"
  /\ episodes = 0
  /\ CodecIdle
  /\ AccessIdle
  /\ SimpleIdle

\* the chunk lengths of these runs: also the magic alone and the flag bits
\* alone
NextHeaders ==
  \E length \in ChunkLengths \cup {FileHeaderLen, FlagBitsLen} :
    FeedChunk(length)

SpecHeaders == InitHeaders /\ [][NextHeaders]_vars

\* logs that make readChunk work through its loops: runs of zero bytes, a
\* flag-bits message of another length, and corrupt messages in a log that
\* is longer than the reassembly buffer
ChunkScenarios ==
  {[name |-> "valid", n |-> 0]}
  \cup {[name |-> "zero_run", n |-> n] : n \in 1..MaxZeros}
  \cup {[name |-> "episodes", n |-> n] : n \in 1..MaxEpisodes}
  \cup {[name |-> "long_flags", n |-> n] : n \in 1..MaxExtra}
  \cup {[name |-> "zero_flood", n |-> n] : n \in 1..MaxZeros}

\* no readChunk call yet
NoChunk ==
  [kind |-> "readChunk", given |-> 0, length |-> 0, depth |-> 0, deepest |-> 0,
   message_iterations |-> 0, recovery_iterations |-> 0, full_on_entry |-> 0,
   stalled |-> FALSE, episodes |-> 0, state |-> "ReadMagic"]

InitChunks ==
  /\ scenario \in ChunkScenarios
  /\ handlerKind = "DataContainer"
  /\ stream = StreamOf(scenario)
  /\ fed = 0
  /\ firstChunk = 0
  /\ lastChunk = 0
  /\ reader = Reader
  /\ handler = NewHandler(handlerKind)
  /\ calls = <<>>
  /\ escaped = "none"
  /\ episodes = 0
  /\ CodecIdle
  /\ AccessIdle
  /\ simple = NoArg
  /\ last = NoChunk

\* reader.readChunk(stream + fed, length), with what the call went through:
\* the length that is left when it returns, how deep its invocations were
\* nested, the passes of its loops, those of the recovery loop that began
\* with the reassembly buffer full, the corruptions it met, and the state it
\* began in
ReadChunk(length) ==
  /\ escaped = "none"
  /\ ~last.stalled
  /\ length >= 1
  /\ fed + length <= Len(stream)
  /\ \E cx \in {readChunk(Context(reader, handler, calls, episodes,
                                   SubSeq(stream, fed + 1, fed + length)))} :
       /\ reader' = cx.r
       /\ handler' = cx.h
       /\ calls' = cx.calls
       /\ episodes' = cx.episodes
       /\ escaped' = cx.escaped
       /\ last' = [kind |-> "readChunk", given |-> length,
                   length |-> cx.length, depth |-> cx.depth,
                   deepest |-> cx.deepest,
                   message_iterations |-> cx.message_iterations,
                   recovery_iterations |-> cx.recovery_iterations,
                   full_on_entry |-> cx.full_on_entry,
                   stalled |-> cx.stalled,
                   episodes |-> cx.episodes - episodes,
                   state |-> reader.state]
  /\ fed' = fed + length
  /\ firstChunk' = IF firstChunk = 0 THEN length ELSE firstChunk
  /\ lastChunk' = length
  /\ UNCHANGED <<scenario, stream, handlerKind, msg, wire, decoded>>
  /\ UNCHANGED <<accessVars, simple>>

\* the chunk lengths of a caller that reads a long log: the file header,
\* blocks of the size of the reassembly buffer, and all that is left
LongChunkLengths ==
  {FileHeaderLen + FlagBitsLen, kBufferSizeInit, Len(stream) - fed}

NextChunks ==
  \E length \in IF scenario.name \in {"episodes", "zero_flood"}
                 THEN LongChunkLengths
                 ELSE ChunkLengths \cup {FileHeaderLen, FlagBitsLen} :
    ReadChunk(length)

SpecChunks == InitChunks /\ [][NextChunks]_vars

---------------------------------------------------------------------------
(* The codec as a state machine: a message object is built through the API, *)
(* serialized to the byte sink, and the bytes are given to the constructor  *)
(* from raw bytes of the same class.                                        *)

\* texts and payloads of the lengths 0 .. bound
SeqsUpTo(S, n) == UNION {[1..k -> S] : k \in 0..n}
Texts == SeqsUpTo({Chr.a, Chr.b}, MaxText)
Payloads == SeqsUpTo({0, 255}, MaxPayload)

CodecFields ==
  {Field(Str("uint8_t"), Str("x"), -1), Field(Str("float"), Str("y"), 3),
   Field(Str("n"), Str("z"), -1), Field(Str("n"), Str("w"), 2)}

CodecMessages ==
  {FileHeader(t, d) : t \in {0, 258}, d \in BOOLEAN}
  \cup {MessageFormat(Str("m"), fs) : fs \in SeqsUpTo(CodecFields, 2)}
  \cup {MessageInfoString(Str("k"), v) : v \in Texts}
  \cup {MessageInfo(f, v, TRUE, c) :
          f \in CodecFields, v \in Payloads, c \in BOOLEAN}
  \cup {ParameterDefault(Field(Str("int32_t"), Str("p"), -1), v, t) :
          v \in Payloads, t \in {1, 2}}
  \cup {AddLoggedMessage(mi, id, nm) : mi \in {0, 1}, id \in {0, 258}, nm \in Texts}
  \cup {Logging(lv, text, t) :
          lv \in {Level.Emergency, Level.Info, Level.Debug},
          text \in Texts, t \in {0, 258}}
  \cup {Data(id, v) : id \in {0, 258}, v \in Payloads}
  \cup {Dropout(d) : d \in {0, 258}}
  \cup {Sync}

\* m.serialize(writer); a MessageInfo is written as INFO or as PARAMETER
SerializeAs(m, type) ==
  CASE m.kind = "FileHeader" -> FileHeaderSerialize(m)
    [] m.kind = "MessageFormat" -> MessageFormatSerialize(m)
    [] m.kind = "MessageInfo" -> MessageInfoSerialize(m, type)
    [] m.kind = "ParameterDefault" -> ParameterDefaultSerialize(m)
    [] m.kind = "AddLoggedMessage" -> AddLoggedMessageSerialize(m)
    [] m.kind = "Logging" -> LoggingSerialize(m)
    [] m.kind = "Data" -> DataSerialize(m)
    [] m.kind = "Dropout" -> DropoutSerialize(m)
    [] m.kind = "Sync" -> SyncSerialize

\* the constructor from raw bytes of the class of m, on the bytes b
FromBytesAs(m, b) ==
  CASE m.kind = "FileHeader" ->
         Parsed(FileHeaderRaw(RawFileHeader(b),
                              RawFlagBits(SubSeq(b, FileHeaderLen + 1, Len(b))),
                              TRUE))
    [] m.kind = "MessageFormat" -> MessageFormatFromBytes(b)
    [] m.kind = "MessageInfo" -> MessageInfoFromBytes(b, m.is_multi)
    [] m.kind = "ParameterDefault" -> ParameterDefaultFromBytes(b)
    [] m.kind = "AddLoggedMessage" -> AddLoggedMessageFromBytes(b)
    [] m.kind = "Logging" -> LoggingFromBytes(b, m.has_tag)
    [] m.kind = "Data" -> DataFromBytes(b)
    [] m.kind = "Dropout" -> DropoutFromBytes(b)
    [] m.kind = "Sync" -> SyncFromBytes(b)

\* a == b as the classes define it
ObjectEq(a, b) ==
  /\ a.kind = b.kind
  /\ CASE a.kind = "FileHeader" -> FileHeaderEq(a, b)
       [] a.kind = "MessageFormat" -> MessageFormatEq(a, b)
       [] a.kind = "MessageInfo" -> MessageInfoEq(a, b)
       [] a.kind = "Logging" -> LoggingEq(a, b)
       [] a.kind = "Data" -> DataEq(a, b)
       [] OTHER -> a = b

ReaderIdle ==
  /\ scenario = [name |-> "none", n |-> 0]
  /\ handlerKind = "Writer"
  /\ stream = <<>>
  /\ fed = 0
  /\ firstChunk = 0
  /\ lastChunk = 0
  /\ reader = Reader
  /\ handler = Writer
  /\ calls = <<>>
  /\ escaped = "none"
  /\ episodes = 0

InitCodec ==
  /\ msg \in CodecMessages
  /\ wire = <<>>
  /\ decoded = Pending
  /\ ReaderIdle
  /\ AccessIdle
  /\ SimpleIdle

Serialize ==
  /\ wire = <<>>
  /\ \E type \in {ULogMessageType.INFO, ULogMessageType.PARAMETER} :
       /\ type = ULogMessageType.PARAMETER => msg.kind = "MessageInfo"
       /\ SerializeAs(msg, type).exc = "none"
       /\ wire' = SerializeAs(msg, type).bytes
  /\ UNCHANGED <<msg, decoded>>
  /\ UNCHANGED <<readerVars, accessVars, simpleVars>>

Decode ==
  /\ wire # <<>>
  /\ decoded = Pending
  /\ decoded' = FromBytesAs(msg, wire)
  /\ UNCHANGED <<msg, wire>>
  /\ UNCHANGED <<readerVars, accessVars, simpleVars>>

NextCodec == Serialize \/ Decode

SpecCodec == InitCodec /\ [][NextCodec]_vars

---------------------------------------------------------------------------
(* SimpleWriter: the Writer behind checks of the calling order and of the   *)
(* formats.  A method gives the writer as it leaves it (s), the exception   *)
(* it throws (exc) with the name its text ends with (named), and what it    *)
(* returns (ret).                                                           *)

\* SimpleWriter(data_write_cb, timestamp_us)
SimpleWriter(timestamp_us) ==
  [kind |-> "SimpleWriter", header_complete |-> FALSE, formats |-> <<>>,
   subscriptions |-> <<>>,
   writer |-> WriterFileHeader(Writer, FileHeader(timestamp_us, FALSE)).h]

\* throw UsageException(text + named)
UsageException(s, text, named) ==
  [exc |-> "UsageException", text |-> text, named |-> named, ret |-> -1,
   s |-> s]

\* the end of a method behind its call r of the Writer
Forwarded(s, r, ret) ==
  [exc |-> r.exc, text |-> "", named |-> <<>>, ret |-> ret,
   s |-> [s EXCEPT !.writer = r.h]]

\* the characters of kFormatNameRegexStr "[a-zA-Z0-9_\\-/]+" and of
\* kFieldNameRegexStr "[a-z0-9_]+"
kFormatNameRegex == (97..122) \cup (65..90) \cup (48..57) \cup {95, 45, 47}
kFieldNameRegex == (97..122) \cup (48..57) \cup {95}

\* a match of a part of the text, as std::regex_search makes it
regex_search(text, class) == \E i \in 1..Len(text) : text[i] \in class

\* std::regex_match(text, "[class]+"): the whole text, one character at least
regex_match(text, class) ==
  Len(text) >= 1 /\ \A i \in 1..Len(text) : text[i] \in class

\* writeMessageFormat: the loop "Check field types and verify padding" from
\* field i on, message_size being the size so far
RECURSIVE CheckFieldTypesAndPadding(_, _, _)
CheckFieldTypesAndPadding(fields, i, message_size) ==
  IF i > Len(fields) THEN [exc |-> "none", message_size |-> message_size]
  ELSE IF fields[i].type.type = "NESTED"
    THEN [exc |-> "UsageException",
          text |-> "Invalid field type (nested formats are not supported): ",
          named |-> fields[i].type.name]
  ELSE IF message_size % fields[i].type.size # 0
    THEN [exc |-> "UsageException",
          text |-> "struct requires padding, reorder fields by decreasing type size. Padding before field: ",
          named |-> fields[i].name]
  ELSE CheckFieldTypesAndPadding(
         fields, i + 1,
         message_size +
           (IF fields[i].array_length <= 0 THEN 1 ELSE fields[i].array_length)
             * fields[i].type.size)

\* writeMessageFormat behind its checks of the names
RegisterFormat(s, name, fields, checked) ==
  IF checked.exc # "none"
  THEN UsageException(s, checked.text, checked.named)
  ELSE Forwarded([s EXCEPT !.formats =
                    (name :> [message_size |-> checked.message_size]) @@ @],
                 WriterMessageFormat(s.writer, MessageFormat(name, fields)),
                 -1)

\* SimpleWriter::writeMessageFormat(name, fields)
writeMessageFormat(s, name, fields) ==
  IF s.header_complete
  THEN UsageException(s, "Header already complete", <<>>)
  ELSE IF \/ fields = <<>>
          \/ fields[1].name # Str("timestamp")
          \/ fields[1].type.name # Str("uint64_t")
          \/ fields[1].array_length # -1
    THEN UsageException(s, "First message field must be 'uint64_t timestamp'",
                        <<>>)
  ELSE IF name \in DOMAIN s.formats
    THEN UsageException(s, "Duplicate format: ", name)
  ELSE IF ~regex_match(name, kFormatNameRegex)
    THEN UsageException(s, "Invalid name: ", name)
  ELSE IF \E i \in 1..Len(fields) : ~regex_match(fields[i].name, kFieldNameRegex)
    THEN UsageException(
           s, "Invalid field name: ",
           fields[CHOOSE i \in 1..Len(fields) :
                    /\ ~regex_match(fields[i].name, kFieldNameRegex)
                    /\ \A j \in 1..(i - 1) :
                         regex_match(fields[j].name, kFieldNameRegex)].name)
  ELSE RegisterFormat(s, name, fields, CheckFieldTypesAndPadding(fields, 1, 0))

\* SimpleWriter::writeInfo(key, value)
writeInfo(s, message_info) ==
  IF s.header_complete
  THEN UsageException(s, "Header already complete", <<>>)
  ELSE Forwarded(s, WriterMessageInfo(s.writer, message_info), -1)

\* SimpleWriter::writeParameter(key, value)
writeParameter(s, parameter) ==
  IF s.header_complete
  THEN UsageException(s, "Header already complete", <<>>)
  ELSE Forwarded(s, WriterParameter(s.writer, parameter), -1)

\* SimpleWriter::headerComplete()
SimpleWriterHeaderComplete(s) ==
  IF s.header_complete
  THEN UsageException(s, "Header already complete", <<>>)
  ELSE Forwarded([s EXCEPT !.header_complete = TRUE],
                 WriterHeaderComplete(s.writer), -1)

\* SimpleWriter::writeParameterChange(key, value)
writeParameterChange(s, parameter) ==
  IF ~s.header_complete
  THEN UsageException(s, "Header not yet complete", <<>>)
  ELSE Forwarded(s, WriterParameter(s.writer, parameter), -1)

\* a writeTextMessage that forgets the phase
writeTextMessageInAnyPhase(s, logging) ==
  Forwarded(s, WriterLogging(s.writer, logging), -1)

\* SimpleWriter::writeTextMessage(level, message, timestamp)
writeTextMessage(s, logging) ==
  IF ~s.header_complete
  THEN UsageException(s, "Header not yet complete", <<>>)
  ELSE Forwarded(s, WriterLogging(s.writer, logging), -1)

\* SimpleWriter::writeAddLoggedMessage(message_format_name, multi_id)
writeAddLoggedMessage(s, message_format_name, multi_id) ==
  IF ~s.header_complete
  THEN UsageException(s, "Header not yet complete", <<>>)
  ELSE IF message_format_name \notin DOMAIN s.formats
    THEN UsageException(s, "Format not found: ", message_format_name)
  ELSE Forwarded(
         [s EXCEPT !.subscriptions =
            Append(@, [message_size |->
                         s.formats[message_format_name].message_size])],
         WriterAddLoggedMessage(
           s.writer,
           AddLoggedMessage(multi_id, Len(s.subscriptions) % 65536,
                            message_format_name)),
         Len(s.subscriptions) % 65536)

\* a writeData that passes on the whole struct
writeDataImplUntrimmed(s, id, data) ==
  IF ~s.header_complete
  THEN UsageException(s, "Header not yet complete", <<>>)
  ELSE IF id >= Len(s.subscriptions)
    THEN UsageException(s, "Invalid ID", <<>>)
  ELSE IF Len(data) < s.subscriptions[id + 1].message_size
    THEN UsageException(s, "sizeof(data) is too small", <<>>)
  ELSE Forwarded(s, WriterData(s.writer, Data(id, data)), -1)

\* SimpleWriter::writeDataImpl(id, data, length); ids count from 0
writeDataImpl(s, id, data) ==
  IF ~s.header_complete
  THEN UsageException(s, "Header not yet complete", <<>>)
  ELSE IF id >= Len(s.subscriptions)
    THEN UsageException(s, "Invalid ID", <<>>)
  ELSE IF Len(data) < s.subscriptions[id + 1].message_size
    THEN UsageException(s, "sizeof(data) is too small", <<>>)
  ELSE Forwarded(
         s, WriterData(s.writer,
                       Data(id, SubSeq(data, 1,
                                       s.subscriptions[id + 1].message_size))),
         -1)

---------------------------------------------------------------------------
(* The typed access as a state machine: the caller is a handler of its own  *)
(* that passes what the Reader gives it on to a DataContainer (formats in   *)
(* the header phase, then headerComplete() once), and that looks into info  *)
(* values and samples through Value objects.                                *)

MaxIndex == 2      \* array indices 0..MaxIndex are selected

fmtInner ==
  MessageFormat(Str("n"), <<Field(Str("int8_t"), Str("p"), -1),
                            Field(Str("uint16_t"), Str("q"), 2),
                            Field(Str("char"), Str("r"), -1)>>)
fmtOuter ==
  MessageFormat(Str("o"), <<Field(Str("uint8_t"), Str("a"), -1),
                            Field(Str("n"), Str("b"), 2),
                            Field(Str("char"), Str("s"), 2)>>)
\* two fields of one name
fmtDup ==
  MessageFormat(Str("d"), <<Field(Str("uint8_t"), Str("x"), -1),
                            Field(Str("uint16_t"), Str("x"), -1)>>)
AccessFormats == {fmtInner, fmtOuter, fmtDup}

\* a sample of "o": a, b[0] = (p, q[0], q[1], r), b[1], s = "h"
sampleO == <<200, 128, 255, 255, 2, 1, 200, 5, 1, 0, 0, 128, 65, 104, 0>>
\* the same, cut short within b[1]
sampleShort == SubSeq(sampleO, 1, 10)
Samples == {Data(1, sampleO), Data(1, sampleShort)}

\* an info message of the nested type "n", and one built through the API
infoNested ==
  MessageInfo(Field(Str("n"), Str("i"), -1), SubSeq(sampleO, 2, 7), FALSE, FALSE)
infoInt ==
  MessageInfo(Field(Str("int16_t"), Str("v"), -1), <<200, 255>>, FALSE, FALSE)
\* a string that fills its char array, as the info values of a log do
infoStr ==
  MessageInfo(Field(Str("char"), Str("t"), 2), <<104, 105>>, FALSE, FALSE)
AccessInfos == {infoNested, infoInt, infoStr}

FieldNames == {Str("a"), Str("b"), Str("s"), Str("p"), Str("q"), Str("r"),
               Str("x")}

\* the types T of as<T>()
Targets ==
  {[type |-> t, shape |-> "scalar"] :
     t \in {"INT8", "UINT8", "INT16", "UINT16", "INT32"}}
  \cup {[type |-> t, shape |-> "vector"] : t \in {"UINT8", "INT16", "INT32"}}
  \cup {[type |-> "CHAR", shape |-> "string"]}

\* what a build and a run leave open: whether plain char is signed, and what
\* a read outside the backing vector does (it faults, or finds some byte)
Builds ==
  {b \in [char_is_signed : BOOLEAN, faults : BOOLEAN, outside : {0, 255}] :
     b.faults => b.outside = 0}

HeaderPhase == [name |-> "calls", n |-> 0]
DataPhase == [name |-> "calls", n |-> 1]

ReaderUnused ==
  /\ stream = <<>>
  /\ fed = 0
  /\ firstChunk = 0
  /\ lastChunk = 0
  /\ reader = Reader
  /\ calls = <<>>
  /\ escaped = "none"
  /\ episodes = 0

InitAccess ==
  /\ scenario = HeaderPhase
  /\ handlerKind = "DataContainer"
  /\ handler = DataContainer("FullLog")
  /\ ReaderUnused
  /\ CodecIdle
  /\ AccessIdle
  /\ SimpleIdle

accessFrame ==
  <<stream, handlerKind, fed, firstChunk, lastChunk, reader, calls, escaped,
    episodes, codecVars, simpleVars>>

\* a handler method is called; an exception it throws is caught by the caller
CallHandler(method, arg) ==
  /\ view = NoArg
  /\ handler' = DataHandlerInterface(handler, method, arg).h
  /\ scenario' = IF method = "headerComplete" THEN DataPhase ELSE scenario
  /\ UNCHANGED <<accessVars, accessFrame>>

CallMessageFormat ==
  /\ scenario = HeaderPhase
  /\ \E f \in AccessFormats : CallHandler("messageFormat", f)

CallMessageInfo == \E i \in AccessInfos : CallHandler("messageInfo", i)

CallHeaderComplete ==
  /\ scenario = HeaderPhase
  /\ CallHandler("headerComplete", NoArg)

MaxPath == 4       \* selections (at, [name], [index]) made on the way to a leaf

\* Field::nestedField(name)
nestedField(formats, f, name) ==
  IF f.type.type # "NESTED" THEN [exc |-> "ParsingException"]
  ELSE IF f.type.nested_message = nullptr THEN [exc |-> "fault"]
  ELSE FormatField(formats[f.type.nested_message], name)

\* info.value() on a stored info message
InfoValue ==
  /\ view = NoArg
  /\ \E key \in DOMAIN handler.message_info :
       /\ view' = [exc |-> "none",
                   value |-> MessageInfoValue(handler.message_info[key])]
       /\ path' = <<[op |-> "value", key |-> key]>>
  /\ UNCHANGED <<scenario, handler, result, accessFrame>>

\* TypedDataView(data, format).at(name) in the data phase
At ==
  /\ view = NoArg
  /\ scenario = DataPhase
  /\ \E data \in Samples, format \in DOMAIN handler.message_formats,
        name \in FieldNames :
       /\ view' = TypedDataViewAtName(data, handler.message_formats[format],
                                      name)
       /\ path' = <<[op |-> "at", data |-> data, format |-> format,
                     name |-> name]>>
  /\ UNCHANGED <<scenario, handler, result, accessFrame>>

CanSelect ==
  /\ view # NoArg
  /\ view.exc = "none"
  /\ result = Pending
  /\ Len(path) < MaxPath

\* value[name], or value[*value_field.nestedField(name)]
Select ==
  /\ CanSelect
  /\ \E name \in FieldNames, how \in {"name", "field"} :
       /\ view' = IF how = "name"
                  THEN SelectName(handler.message_formats, view.value, name)
                  ELSE SelectFound(view.value,
                                   nestedField(handler.message_formats,
                                               view.value.field, name))
       /\ path' = Append(path, [op |-> "select", name |-> name, how |-> how])
  /\ UNCHANGED <<scenario, handler, result, accessFrame>>

\* value[index]
Index ==
  /\ CanSelect
  /\ \E index \in 0..MaxIndex :
       /\ view' = SelectIndex(view.value, index)
       /\ path' = Append(path, [op |-> "index", index |-> index])
  /\ UNCHANGED <<scenario, handler, result, accessFrame>>

\* a read outside the backing vector may end the process
Faulted(out, backing, build) ==
  IF build.faults /\ ~(out.reads \subseteq 0..(Len(backing) - 1))
  THEN [exc |-> "fault", reads |-> out.reads]
  ELSE out

\* value.as<T>() on the build
Decoded(v, T, build) ==
  Faulted(as(asNativeTypeVariant(v, build.outside), T, build.char_is_signed),
          v.backing, build)

As ==
  /\ view # NoArg
  /\ view.exc = "none"
  /\ result = Pending
  /\ \E T \in Targets, build \in Builds :
       result' = [T |-> T, build |-> build,
                  out |-> Decoded(view.value, T, build)]
  /\ UNCHANGED <<scenario, handler, view, path, accessFrame>>

NextAccess ==
  \/ CallMessageFormat
  \/ CallMessageInfo
  \/ CallHeaderComplete
  \/ InfoValue
  \/ At
  \/ Select
  \/ Index
  \/ As

SpecAccess == InitAccess /\ [][NextAccess]_vars

---------------------------------------------------------------------------
(* The SimpleWriter as a state machine: a caller constructs it and calls    *)
(* its methods in any order, catching what they throw.  `last` keeps the    *)
(* last call: its arguments, its outcome, the writer before it, and the     *)
(* format names of the ids writeAddLoggedMessage has returned so far.       *)

MaxCalls == 5      \* calls made on one SimpleWriter

timestampField == Field(Str("uint64_t"), Str("timestamp"), -1)

\* the formats that are in order
GoodFormats ==
  {[name |-> Str("g"),
    fields |-> <<timestampField, Field(Str("uint8_t"), Str("a"), -1)>>],
   [name |-> Str("h"),
    fields |-> <<timestampField, Field(Str("uint16_t"), Str("a"), -1),
                 Field(Str("uint8_t"), Str("b"), 2)>>],
   [name |-> Str("U-L"), fields |-> <<timestampField>>]}

\* those with one thing wrong each
BadFormats ==
  {[name |-> Str("e"), fields |-> <<>>],
   [name |-> Str("e"), fields |-> <<Field(Str("uint8_t"), Str("a"), -1)>>],
   [name |-> Str("e"),
    fields |-> <<Field(Str("uint64_t"), Str("timestamp"), 1)>>],
   [name |-> Str("e"),
    fields |-> <<Field(Str("uint32_t"), Str("timestamp"), -1)>>],
   [name |-> Str("e:"), fields |-> <<timestampField>>],
   [name |-> <<>>, fields |-> <<timestampField>>],
   [name |-> Str("e"),
    fields |-> <<timestampField, Field(Str("uint8_t"), Str("U"), -1)>>],
   [name |-> Str("e"),
    fields |-> <<timestampField, Field(Str("g"), Str("n"), -1)>>],
   [name |-> Str("e"),
    fields |-> <<timestampField, Field(Str("uint8_t"), Str("a"), -1),
                 Field(Str("uint16_t"), Str("b"), -1),
                 Field(Str("int32_t"), Str("c"), -1)>>]}

\* those with an array of no element
EmptyArrayFormats ==
  {[name |-> Str("y"),
    fields |-> <<timestampField, Field(Str("uint8_t"), Str("a"), 0)>>],
   [name |-> Str("z"),
    fields |-> <<timestampField, Field(Str("uint8_t"), Str("a"), 0),
                 Field(Str("uint16_t"), Str("b"), -1)>>]}

SimpleFormats == GoodFormats \cup BadFormats \cup EmptyArrayFormats

\* the structs given to writeData: 8 to 13 bytes
SimpleBuffers == {[i \in 1..n |-> i] : n \in {8, 9, 10, 13}}

InitSimple ==
  /\ scenario = [name |-> "simple", n |-> 0]
  /\ handlerKind = "Writer"
  /\ handler = Writer
  /\ ReaderUnused
  /\ CodecIdle
  /\ AccessIdle
  /\ simple = SimpleWriter(7)
  /\ last = [kind |-> "call", n |-> 0, call |-> "SimpleWriter", args |-> <<>>,
             exc |-> "none", named |-> <<>>, ret |-> -1, before |-> NoArg,
             bound |-> <<>>, done |-> <<>>]

simpleFrame ==
  <<scenario, stream, handlerKind, handler, fed, firstChunk, lastChunk,
    reader, calls, escaped, episodes, codecVars, accessVars>>

\* the call has ended as out; an exception is caught by the caller
SimpleCall(call, args, out) ==
  /\ last.n < MaxCalls
  /\ fed = 0
  /\ simple' = out.s
  /\ last' = [kind |-> "call", n |-> last.n + 1, call |-> call, args |-> args,
              exc |-> out.exc, named |-> out.named, ret |-> out.ret,
              before |-> simple,
              bound |-> IF call = "writeAddLoggedMessage" /\ out.exc = "none"
                        THEN Append(last.bound, args.name) ELSE last.bound,
              done |-> IF out.exc = "none"
                       THEN Append(last.done, [call |-> call, args |-> args,
                                               ret |-> out.ret])
                       ELSE last.done]
  /\ UNCHANGED simpleFrame

WriteInfo ==
  SimpleCall("writeInfo", [info |-> infoK], writeInfo(simple, infoK))

WriteParameter ==
  SimpleCall("writeParameter", [parameter |-> parameterP],
          writeParameter(simple, parameterP))

WriteMessageFormat ==
  \E f \in SimpleFormats :
    SimpleCall("writeMessageFormat", f,
            writeMessageFormat(simple, f.name, f.fields))

HeaderComplete ==
  SimpleCall("headerComplete", <<>>, SimpleWriterHeaderComplete(simple))

WriteParameterChange ==
  SimpleCall("writeParameterChange", [parameter |-> parameterP],
          writeParameterChange(simple, parameterP))

WriteTextMessage ==
  \E logging \in {logHi, logEmpty} :
    SimpleCall("writeTextMessage", [logging |-> logging],
            writeTextMessage(simple, logging))

WriteAddLoggedMessage ==
  \E name \in {Str("g"), Str("h"), Str("y"), Str("e")} :
    SimpleCall("writeAddLoggedMessage", [name |-> name, multi_id |-> 0],
            writeAddLoggedMessage(simple, name, 0))

WriteData ==
  \E id \in 0..1, data \in SimpleBuffers :
    SimpleCall("writeData", [id |-> id, data |-> data],
            writeDataImpl(simple, id, data))

NextSimple ==
  \/ WriteInfo
  \/ WriteParameter
  \/ WriteMessageFormat
  \/ HeaderComplete
  \/ WriteParameterChange
  \/ WriteTextMessage
  \/ WriteAddLoggedMessage
  \/ WriteData

SpecSimple == InitSimple /\ [][NextSimple]_vars

\* the test's second half: what the SimpleWriter has written so far is read
\* by a Reader into a DataContainer that keeps the whole log
ReadBack ==
  /\ fed = 0
  /\ last.n >= 1
  /\ \E cx \in {ReadAll("DataContainer", simple.writer.written)} :
       /\ reader' = cx.r
       /\ handler' = cx.h
       /\ calls' = cx.calls
       /\ episodes' = cx.episodes
       /\ escaped' = cx.escaped
  /\ stream' = simple.writer.written
  /\ fed' = Len(simple.writer.written)
  /\ firstChunk' = Len(simple.writer.written)
  /\ lastChunk' = Len(simple.writer.written)
  /\ UNCHANGED <<scenario, handlerKind, codecVars, accessVars, simpleVars>>

NextWrittenAndRead == NextSimple \/ ReadBack

SpecWrittenAndRead == InitSimple /\ [][NextWrittenAndRead]_vars

---------------------------------------------------------------------------
(* The DataContainer as a state machine of its own: the messages of a log   *)
(* reach it one by one, each constructed from its bytes and passed to the   *)
(* handler method of its type, as readHeaderMessage and readDataMessage do. *)
(* `last` keeps the last event: the method, the message, the exception the  *)
(* constructor or the method threw, and the container and the section of    *)
(* the log before the call.                                                 *)

MaxEvents == 6     \* messages delivered to one DataContainer

\* 'd:uint8_t x;uint16_t x;': two fields of one name
formatTwice ==
  MessageFormat(Str("d"), <<Field(Str("uint8_t"), Str("x"), -1),
                            Field(Str("uint16_t"), Str("x"), -1)>>)
addTwice == AddLoggedMessage(0, 3, Str("d"))
addUnknown == AddLoggedMessage(0, 4, Str("u"))

\* info messages: a multi one that opens a key, one that continues a key,
\* and one of the nested type "m"
infoMultiFirst ==
  MessageInfo(Field(Str("char"), Str("c"), 1), <<104>>, TRUE, FALSE)
infoMultiContinued ==
  MessageInfo(Field(Str("char"), Str("c"), 1), <<105>>, TRUE, TRUE)
infoOfM == MessageInfo(Field(Str("m"), Str("i"), -1), <<7>>, FALSE, FALSE)
\* a multi info message that opens another key
infoMultiOther ==
  MessageInfo(Field(Str("char"), Str("e"), 1), <<106>>, TRUE, FALSE)

\* an info message of the key k with another value
infoAgain == MessageInfoString(Str("k"), Str("w"))

EventFormats ==
  {MessageFormatSerialize(f).bytes : f \in {formatM, formatNested, formatTwice}}

EventInfos ==
  {[bytes |-> MessageInfoSerialize(infoK, ULogMessageType.INFO).bytes,
    is_multi |-> FALSE],
   [bytes |-> MessageInfoSerialize(infoAgain, ULogMessageType.INFO).bytes,
    is_multi |-> FALSE],
   [bytes |-> MessageInfoSerialize(infoOfM, ULogMessageType.INFO).bytes,
    is_multi |-> FALSE],
   [bytes |-> MessageInfoSerialize(infoMultiFirst,
                                   ULogMessageType.INFO_MULTIPLE).bytes,
    is_multi |-> TRUE],
   [bytes |-> MessageInfoSerialize(infoMultiContinued,
                                   ULogMessageType.INFO_MULTIPLE).bytes,
    is_multi |-> TRUE],
   [bytes |-> MessageInfoSerialize(infoMultiOther,
                                   ULogMessageType.INFO_MULTIPLE).bytes,
    is_multi |-> TRUE]}

\* parameters: p with two values, and another name; defaults of p with two
\* values
parameterAgain ==
  MessageInfo(Field(Str("int32_t"), Str("p"), -1), <<2, 0, 0, 0>>, FALSE, FALSE)
parameterQ ==
  MessageInfo(Field(Str("int32_t"), Str("q"), -1), <<5, 0, 0, 0>>, FALSE, FALSE)
defaultP ==
  ParameterDefault(Field(Str("int32_t"), Str("p"), -1), <<3, 0, 0, 0>>, 1)
defaultAgain ==
  ParameterDefault(Field(Str("int32_t"), Str("p"), -1), <<4, 0, 0, 0>>, 2)
EventParameters ==
  {MessageInfoSerialize(q, ULogMessageType.PARAMETER).bytes :
     q \in {parameterP, parameterAgain, parameterQ}}

EventDefaults ==
  {ParameterDefaultSerialize(d).bytes : d \in {defaultP, defaultAgain}}

EventAdds ==
  {AddLoggedMessageSerialize(a).bytes :
     a \in {addM, addAgain, addMulti, addTwice, addUnknown}}

EventData ==
  {DataSerialize(d).bytes :
     d \in {dataA, dataB, Data(1, <<10, 11>>), dataSecond, Data(3, <<15>>),
            Data(3, <<15, 16, 17>>), dataUnsubscribed}}

InitEvents ==
  /\ scenario = HeaderPhase
  /\ handlerKind = "DataContainer"
  /\ handler = DataContainer("FullLog")
  /\ ReaderUnused
  /\ CodecIdle
  /\ AccessIdle
  /\ simple = NoArg
  /\ last = [kind |-> "event", n |-> 0, method |-> "DataContainer",
             parsed |-> Throw("none"), exc |-> "none", before |-> NoArg,
             phase |-> HeaderPhase]

eventFrame ==
  <<stream, handlerKind, fed, firstChunk, lastChunk, reader, calls, escaped,
    episodes, codecVars, accessVars, simple>>

\* what the constructor of the message and then the handler method leave
Delivered(h, parsed, method) ==
  IF parsed.exc # "none" THEN [exc |-> parsed.exc, h |-> h]
  ELSE DataHandlerInterface(h, method, parsed.obj)

\* _data_handler_interface->method(Message{message}); what is thrown is
\* caught in readChunk
Event(method, parsed) ==
  /\ last.n < MaxEvents
  /\ handler' = Delivered(handler, parsed, method).h
  /\ last' = [kind |-> "event", n |-> last.n + 1, method |-> method,
              parsed |-> parsed,
              exc |-> Delivered(handler, parsed, method).exc,
              before |-> handler, phase |-> scenario]
  /\ scenario' = IF method = "headerComplete" THEN DataPhase ELSE scenario
  /\ UNCHANGED eventFrame

EventMessageFormat ==
  /\ scenario = HeaderPhase
  /\ \E b \in EventFormats : Event("messageFormat", MessageFormatFromBytes(b))

EventMessageInfo ==
  \E i \in EventInfos :
    Event("messageInfo", MessageInfoFromBytes(i.bytes, i.is_multi))

EventParameter ==
  \E b \in EventParameters :
    Event("parameter", MessageInfoFromBytes(b, FALSE))

EventParameterDefault ==
  \E b \in EventDefaults :
    Event("parameterDefault", ParameterDefaultFromBytes(b))

\* the first message of the data section, and a caller that asks for the
\* resolution once more
EventHeaderComplete == Event("headerComplete", Parsed(NoArg))

EventAddLoggedMessage ==
  /\ scenario = DataPhase
  /\ \E b \in EventAdds :
       Event("addLoggedMessage", AddLoggedMessageFromBytes(b))

EventDataMessage ==
  /\ scenario = DataPhase
  /\ \E b \in EventData : Event("data", DataFromBytes(b))

EventLogging ==
  /\ scenario = DataPhase
  /\ Event("logging", LoggingFromBytes(LoggingSerialize(logHi).bytes, FALSE))

EventDropout ==
  /\ scenario = DataPhase
  /\ Event("dropout", DropoutFromBytes(DropoutSerialize(dropout3).bytes))

NextEvents ==
  \/ EventMessageFormat
  \/ EventMessageInfo
  \/ EventHeaderComplete
  \/ EventAddLoggedMessage
  \/ EventDataMessage
  \/ EventLogging
  \/ EventDropout

SpecEvents == InitEvents /\ [][NextEvents]_vars

\* the callbacks that store named values (info, parameters, parameter
\* defaults), around the completion of the header
NextParameters ==
  \/ EventMessageFormat
  \/ EventMessageInfo
  \/ EventParameter
  \/ EventParameterDefault
  \/ EventHeaderComplete

SpecParameters == InitEvents /\ [][NextParameters]_vars

---------------------------------------------------------------------------
(* Claims *)

\* C1: for every message object the API can construct, with any text and
\* payload length >= 0, the constructor from raw bytes of the same class
\* succeeds on the bytes serialize() emitted and yields an object equal to
\* the original.  (Checked under SpecCodec.)
C1_RoundTrip ==
  decoded # Pending => decoded.exc = "none" /\ ObjectEq(msg, decoded.obj)

\* C1: the failing case: a Logging message with an empty text is written
\* with msg_size 9 and refused by Logging(const uint8_t*) as too short
C1_EmptyLoggingRefused ==
  /\ msg = Logging(Level.Info, <<>>, 0)
  /\ wire = RawHeader(9, ULogMessageType.LOGGING) \o <<Level.Info>> \o Zeros(8)
  /\ decoded # Pending
  /\ decoded.exc = "ParsingException"

---------------------------------------------------------------------------
(* Vocabulary of the claims about the Reader *)

\* the first chunk held the file magic and the flag-bits message
FirstChunkHoldsHeader == firstChunk >= FileHeaderLen + FlagBitsLen

AllFed == fed = Len(stream)

IsError(c) == c.method = "error"
IsFatalError(c) == c.method = "error" /\ ~c.arg.is_recoverable
IsRecoverableError(c) == c.method = "error" /\ c.arg.is_recoverable
IsCorruptionError(c) == c = CorruptionError
IsMessageCall(c) == c.method # "error"

Indices(seq, Test(_)) == {i \in 1..Len(seq) : Test(seq[i])}

\* parsing the whole log in one piece detects no corruption
NoCorruptionInLog ==
  LET whole == ReadAll(handlerKind, stream)
  IN whole.episodes = 0 /\ whole.escaped = "none"

\* the calls and the handler are those of parsing the bytes fed so far in
\* one piece
SameAsInOnePiece ==
  LET piece == ReadAll(handlerKind, SubSeq(stream, 1, fed))
  IN calls = piece.calls /\ handler = piece.h

\* C2: for any byte stream, every chunk schedule whose first chunk holds the
\* file magic and the flag bits produces the same handler callbacks and the
\* same final handler state as any other.
C2_ChunkInvariance ==
  FirstChunkHoldsHeader /\ AllFed => SameAsInOnePiece

\* C2 (amended): for a byte stream in which no corruption is detected, every
\* such schedule has, after any number of bytes, made exactly the callbacks
\* of parsing those bytes in one piece and left the handler in the same
\* state; in a valid log every message is delivered exactly once, in the
\* call that feeds its last byte.
C2_ChunkInvarianceNoCorruption ==
  FirstChunkHoldsHeader /\ NoCorruptionInLog =>
    /\ SameAsInOnePiece
    /\ scenario.name = "valid" => calls = ExpectedCalls(scenario, fed)

\* C2: the valid log fed in several chunks, the first the header and the
\* last one byte, every message delivered once
C2_ValidLogInSmallChunks ==
  /\ scenario.name = "valid"
  /\ handlerKind = "DataContainer"
  /\ firstChunk = FileHeaderLen + FlagBitsLen
  /\ lastChunk = 1
  /\ AllFed
  /\ reader.total_num_read = Len(stream)
  /\ Len(calls) = 11
  /\ Len(handler.subscriptions_by_message_id[1].samples) = 2

\* C3: with a Writer as the Reader's handler, for every well-formed log and
\* every schedule whose first chunk holds magic and flag bits, the bytes the
\* Writer passes to its sink equal the input stream, and error is never called.
C3_ReadThenWriteIdentity ==
  /\ handlerKind = "Writer"
  /\ scenario.name \in {"valid", "empty_log"}
  /\ FirstChunkHoldsHeader
  /\ AllFed
  => /\ handler.written = stream
     /\ Indices(calls, IsError) = {}

\* C3: the failing case: a log with an empty Logging text is copied without it
C3_EmptyLoggingNotCopied ==
  /\ handlerKind = "Writer"
  /\ scenario.name = "empty_log"
  /\ FirstChunkHoldsHeader
  /\ lastChunk = 1
  /\ AllFed
  /\ Len(handler.written) = Len(stream) - Len(EmptyLogTrigger.bytes)
  /\ Indices(calls, IsError) # {}

\* the part of the log at which the corruption is (the zero run, or the
\* message that does not decode)
CorruptPart ==
  CASE scenario.name = "zero_run" -> 4
    [] scenario.name = "bad_message" -> 5
    [] OTHER -> 0

\* the calls the parts after the corrupt one announce
RECURSIVE ExpectedAfter(_, _)
ExpectedAfter(sc, from) ==
  IF from > Len(Parts(sc)) THEN <<>>
  ELSE Parts(sc)[from].expect \o ExpectedAfter(sc, from + 1)

\* every call of wanted has been made, in that order and next to each other,
\* as the last calls
EndsWith(made, wanted) ==
  /\ Len(made) >= Len(wanted)
  /\ SubSeq(made, Len(made) - Len(wanted) + 1, Len(made)) = wanted

\* the messages after the corrupt part have been delivered, and a
\* DataContainer has stored them
FollowersDelivered ==
  /\ EndsWith(SelectSeq(calls, IsMessageCall),
              SelectSeq(ExpectedAfter(scenario, CorruptPart + 1), IsMessageCall))
  /\ handlerKind = "DataContainer" =>
       /\ 1 \in DOMAIN handler.subscriptions_by_message_id
       /\ handler.subscriptions_by_message_id[1].samples = <<dataA, dataB>>
       /\ handler.logging = <<logHi>>

\* a chunk was fed after the call that fed the fourth byte of the first
\* message behind the corrupt part
FedOnAfterResync ==
  fed - lastChunk >= EndOf(scenario, CorruptPart) + ULOG_MSG_HEADER_LEN + 1

\* C4: for a valid log with a run of n >= 1 zero bytes inserted after the
\* header section and before the first data-phase message, and any chunk
\* schedule, once all bytes are fed: a recoverable error has been reported,
\* no fatal error has been reported, and every message after the run has
\* been delivered and is stored in the DataContainer.
C4_ZeroRunRecovery ==
  scenario.name = "zero_run" /\ FirstChunkHoldsHeader /\ AllFed =>
    /\ Indices(calls, IsRecoverableError) # {}
    /\ Indices(calls, IsFatalError) = {}
    /\ FollowersDelivered

\* C4: the failing case: a run of one zero byte, fed in several chunks.
\* The zero byte is read as the low byte of the next msg_size, the Reader
\* waits for a message of that size, and neither an error is reported nor
\* a message behind the run delivered
C4_ShortRunNotRecovered ==
  /\ scenario = [name |-> "zero_run", n |-> 1]
  /\ handlerKind = "DataContainer"
  /\ firstChunk = FileHeaderLen + FlagBitsLen
  /\ lastChunk = 1
  /\ AllFed
  /\ FedOnAfterResync
  /\ Indices(calls, IsError) = {}
  /\ ~handler.header_complete
  /\ handler.subscriptions_by_message_id = <<>>
  /\ handler.logging = <<>>

\* C5: when a single message of the data phase fails to decode (a Sync
\* with wrong magic bytes) or is rejected by the handler with a parse error
\* (a Data for an unknown msg_id), exactly that message is dropped, no fatal
\* error is reported, and every message that follows it has been delivered
\* once all bytes are fed, for any chunk schedule.
BadMessageIsRefused == scenario.n = 1 \/ handlerKind = "DataContainer"

C5_BadMessageDropped ==
  /\ scenario.name = "bad_message"
  /\ BadMessageIsRefused
  /\ FirstChunkHoldsHeader
  /\ AllFed
  => /\ Indices(calls, IsFatalError) = {}
     /\ SelectSeq(calls, IsMessageCall) =
          SelectSeq(ExpectedCalls(scenario, Len(stream)), IsMessageCall)

\* C5 (amended): the same, provided a further chunk is fed after the
\* readChunk call that received the fourth byte of the message behind the
\* refused one; the refusal is reported as one recoverable error.
C5_BadMessageDroppedFedOn ==
  /\ scenario.name = "bad_message"
  /\ BadMessageIsRefused
  /\ FirstChunkHoldsHeader
  /\ AllFed
  /\ FedOnAfterResync
  => /\ Indices(calls, IsFatalError) = {}
     /\ calls = ExpectedCalls(scenario, Len(stream))
     /\ FollowersDelivered

\* C5: a Sync with a wrong magic byte has been dropped and the Data and the
\* Logging message behind it have been stored
C5_BadSyncDropped ==
  /\ scenario = [name |-> "bad_message", n |-> 1]
  /\ handlerKind = "DataContainer"
  /\ AllFed
  /\ FedOnAfterResync
  /\ lastChunk = MaxChunk
  /\ episodes = 1
  /\ Indices(calls, LAMBDA c : c.method = "sync") = {}
  /\ handler.subscriptions_by_message_id[1].samples = <<dataA, dataB>>
  /\ handler.logging = <<logHi>>

NumCorruptionErrors == Cardinality(Indices(calls, IsCorruptionError))

\* C6: every corruption episode (each entry into recovery mode) results in
\* exactly one call of handler.error with is_recoverable = true, the first
\* episode and every later episode of the same Reader alike.
C6_OneErrorPerEpisode ==
  /\ NumCorruptionErrors = episodes
  /\ \A i \in Indices(calls, IsCorruptionError) : IsRecoverableError(calls[i])

\* C6 (amended): the first corruption episode of a Reader results in exactly
\* one call of handler.error("Message corruption detected", recoverable);
\* later episodes of the same Reader result in none.
C6_OneErrorPerReader ==
  /\ NumCorruptionErrors = (IF episodes = 0 THEN 0 ELSE 1)
  /\ reader.corruption_reported <=> episodes > 0
  /\ reader.need_recovery => reader.corruption_reported
  /\ \A i \in Indices(calls, IsCorruptionError) : IsRecoverableError(calls[i])

\* C6: a second episode has begun and ended
C6_SecondEpisodeOver ==
  /\ scenario.name = "two_episodes"
  /\ episodes = 2
  /\ ~reader.need_recovery
  /\ AllFed
  /\ calls[Len(calls)] = HandlerCall("data", dataC)

\* C7: readChunk never propagates an exception to its caller: every decode
\* failure, an empty or non-numeric array length inside '[...]' included,
\* and every parse error of the handler is reported through handler.error as
\* a recoverable error and puts the parser into recovery.
C7_NeverThrows ==
  /\ escaped = "none"
  /\ episodes > 0 => Indices(calls, IsRecoverableError) # {}

\* C7: the failing case: the format 'm:uint8_t[] x;' makes std::stoi throw
\* std::invalid_argument, which leaves readChunk with no error reported
C7_InvalidArgumentEscaped ==
  /\ scenario.name = "bad_array"
  /\ escaped = "invalid_argument"
  /\ Indices(calls, IsError) = {}
  /\ ~reader.need_recovery

\* C8: after a fatal error the Reader is in InvalidData for good and no
\* handler method, error included, is invoked any more, neither for the rest
\* of the chunk in which the fatal error occurred nor for a later chunk; the
\* DataContainer's hadFatalError is true from then on.
C8_NothingAfterFatalError ==
  \A i \in Indices(calls, IsFatalError) :
    /\ i = Len(calls)
    /\ reader.state = "InvalidData"
    /\ handlerKind = "DataContainer" => handler.had_fatal_error

\* C8: the failing case: a file of zero bytes gets the fatal "incorrect
\* header bytes" and then, from the rest of the same chunk, a further call
\* of error
C8_ErrorAfterFatalError ==
  /\ scenario.name = "zero_file"
  /\ fed = firstChunk
  /\ reader.state = "InvalidData"
  /\ Len(calls) = 2
  /\ IsFatalError(calls[1])
  /\ calls[2] = CorruptionError

\* some registered format has a field of a nested type that is not registered
MissingNestedType(h) ==
  \E name \in DOMAIN h.message_formats :
    \E i \in 1..Len(h.message_formats[name].fields_ordered) :
      LET f == h.message_formats[name].fields_ordered[i]
      IN f.type.type = "NESTED" /\ f.type.name \notin DOMAIN h.message_formats

HeaderCompleteCalls == Indices(calls, LAMBDA c : c.method = "headerComplete")

\* C9: if at header completion a field of a registered format names a nested
\* type that is not in the registry, the failure is reported as a fatal error
\* (is_recoverable = false), hadFatalError becomes true and the Reader moves
\* to InvalidData.
C9_MissingNestedTypeIsFatal ==
  /\ handlerKind = "DataContainer"
  /\ MissingNestedType(handler)
  /\ HeaderCompleteCalls # {}
  => /\ Indices(calls, IsFatalError) # {}
     /\ handler.had_fatal_error
     /\ reader.state = "InvalidData"

\* C9: the failing case: the failure is reported as recoverable and parsing
\* goes on in ReadData with a header that was never completed
C9_MissingNestedTypeRecoverable ==
  /\ scenario.name = "missing_nested"
  /\ handlerKind = "DataContainer"
  /\ AllFed
  /\ HeaderCompleteCalls # {}
  /\ calls[Len(calls)] = CorruptionError
  /\ ~handler.had_fatal_error
  /\ ~handler.header_complete
  /\ reader.state = "ReadData"

\* C10: headerComplete() is invoked when the first message of type A, L or C
\* is read in ReadHeader, at most once per Reader; the state never returns
\* from ReadData to ReadHeader; and the message that triggered the transition
\* is delivered (as addLoggedMessage or logging) right after headerComplete().
C10_HeaderCompleteOnce ==
  /\ Cardinality(HeaderCompleteCalls) <= 1
  /\ HeaderCompleteCalls # {} <=> reader.state = "ReadData"
  /\ \A i \in HeaderCompleteCalls :
       /\ i < Len(calls)
       /\ calls[i + 1].method \in {"addLoggedMessage", "logging"}

\* C10: the failing case: the triggering Logging message has an empty text,
\* is refused by its constructor after headerComplete() and is never delivered
C10_TriggerNotDelivered ==
  /\ scenario.name = "empty_log"
  /\ AllFed
  /\ HeaderCompleteCalls # {}
  /\ \A i \in HeaderCompleteCalls : calls[i + 1] = CorruptionError
  /\ Indices(calls, LAMBDA c : c.method = "logging") = {}

---------------------------------------------------------------------------
(* Vocabulary of the claims about layout and typed access *)

\* the formats a format names as the type of a nested field
Refs(formats, name) ==
  {formats[name].fields_ordered[i].type.name :
     i \in {j \in 1..Len(formats[name].fields_ordered) :
              formats[name].fields_ordered[j].type.type = "NESTED"}}

RECURSIVE Reach(_, _, _)
Reach(formats, S, k) ==
  IF k = 0 THEN S
  ELSE Reach(formats,
             S \cup UNION {Refs(formats, n) : n \in S \cap DOMAIN formats},
             k - 1)

\* no format contains itself, and every referenced type is registered
Acyclic(formats) ==
  \A n \in DOMAIN formats :
    n \notin Reach(formats, Refs(formats, n), Cardinality(DOMAIN formats))
CompleteRegistry(formats) ==
  \A n \in DOMAIN formats : Refs(formats, n) \subseteq DOMAIN formats

\* the size of a format as its declaration gives it: the sum over the
\* declared field sequence, a nested field counting as the format it names
RECURSIVE DeclaredSize(_, _), DeclaredSum(_, _, _)
DeclaredSize(formats, f) ==
  (IF f.type.type = "NESTED"
   THEN DeclaredSum(formats, formats[f.type.name].fields_ordered,
                    Len(formats[f.type.name].fields_ordered))
   ELSE f.type.size) * (IF f.array_length = -1 THEN 1 ELSE f.array_length)
DeclaredSum(formats, fields, upto) ==
  IF upto = 0 THEN 0
  ELSE DeclaredSum(formats, fields, upto - 1) +
       DeclaredSize(formats, fields[upto])

\* the layout of the registered format `name` is the declared one
LayoutAsDeclared(formats, name) ==
  LET F == formats[name]
      fs == F.fields_ordered
  IN /\ \A i \in 1..Len(fs) :
          /\ definitionResolved(fs[i])
          /\ fs[i].offset_in_message_bytes = SumSizeBytes(fs, 1..(i - 1))
          /\ fs[i].offset_in_message_bytes = DeclaredSum(formats, fs, i - 1)
          /\ fs[i].type.type = "NESTED" =>
               /\ fs[i].type.nested_message = fs[i].type.name
               /\ fs[i].type.size = FormatSizeBytes(formats[fs[i].type.name]).size
          /\ FieldSizeBytes(fs[i]) = DeclaredSize(formats, fs[i])
     /\ FormatSizeBytes(F).exc = "none"
     /\ FormatSizeBytes(F).size = SumSizeBytes(fs, 1..Len(fs))
     /\ FormatSizeBytes(F).size = DeclaredSum(formats, fs, Len(fs))

\* the field of a stored info message is resolved to the declared layout
InfoAsDeclared(formats, info) ==
  /\ definitionResolved(info.field)
  /\ info.field.offset_in_message_bytes = 0
  /\ CompleteRegistry(formats) /\ info.field.type.type = "NESTED" =>
       /\ info.field.type.name \in DOMAIN formats
       /\ FieldSizeBytes(info.field) = DeclaredSize(formats, info.field)

\* C11: once the header is complete on an acyclic registry that holds every
\* referenced type, every field's offset is the sum of the sizes of the
\* fields declared before it, a nested field's element size is the size of
\* the format it names, a format's size is the sum over its declared field
\* sequence, and (the values being those of the declarations alone) neither
\* depends on the order of registration; an info message of a nested type
\* registered before that type is resolved as well.  (Checked under
\* SpecAccess.)
C11_LayoutResolution ==
  (/\ handler.header_complete
   /\ Acyclic(handler.message_formats)
   /\ CompleteRegistry(handler.message_formats))
  => /\ \A name \in DOMAIN handler.message_formats :
          LayoutAsDeclared(handler.message_formats, name)
     /\ \A key \in DOMAIN handler.message_info :
          InfoAsDeclared(handler.message_formats, handler.message_info[key])

\* C11: the failing case: a registered format with two fields of one name,
\* 'd:uint8_t x;uint16_t x;', has sizeBytes() 1 while its fields take 3 bytes
C11_DuplicateNameUndersized ==
  /\ handler.header_complete
  /\ Str("d") \in DOMAIN handler.message_formats
  /\ Str("o") \in DOMAIN handler.message_formats
  /\ Acyclic(handler.message_formats)
  /\ CompleteRegistry(handler.message_formats)
  /\ LayoutAsDeclared(handler.message_formats, Str("o"))
  /\ FormatSizeBytes(handler.message_formats[Str("d")]).size = 1
  /\ SumSizeBytes(handler.message_formats[Str("d")].fields_ordered, 1..2) = 3

---------------------------------------------------------------------------
(* C12 *)

\* the field the first step of the path names, seen from the start of the
\* backing vector: [ok, field, offset, index]
PathStart(h, step) ==
  IF step.op = "at"
  THEN [ok |-> step.name \in DOMAIN h.message_formats[step.format].fields,
        field |-> FormatField(h.message_formats[step.format], step.name),
        offset |-> 0, index |-> -1]
  ELSE [ok |-> definitionResolved(h.message_info[step.key].field),
        field |-> [exc |-> "none", field |-> h.message_info[step.key].field],
        offset |-> 0, index |-> -1]

\* the start of the element the selections so far have reached
ElementStart(at) ==
  at.offset + at.field.field.offset_in_message_bytes +
    (IF at.index >= 0 THEN at.index * at.field.field.type.size ELSE 0)

\* one more selection; a path is well formed when every name is selected in
\* a nested field that has the name and every index follows a field of its
\* own and lies within the field's array
PathStep(h, at, step) ==
  IF ~at.ok THEN at
  ELSE IF step.op = "index"
    THEN [at EXCEPT !.ok = /\ at.index = -1
                           /\ step.index < at.field.field.array_length,
                    !.index = step.index]
  ELSE IF at.field.field.type.type # "NESTED"
    THEN [at EXCEPT !.ok = FALSE]
  ELSE [ok |-> step.name \in
                 DOMAIN h.message_formats[at.field.field.type.nested_message].fields,
        field |-> FormatField(
                    h.message_formats[at.field.field.type.nested_message],
                    step.name),
        offset |-> ElementStart(at), index |-> -1]

RECURSIVE PathLeaf(_, _, _)
PathLeaf(h, steps, k) ==
  IF k = 1 THEN PathStart(h, steps[1])
  ELSE PathStep(h, PathLeaf(h, steps, k - 1), steps[k])

\* the backing vector the path looks into
PathBacking(h, step) ==
  IF step.op = "at" THEN step.data.data ELSE h.message_info[step.key].value

\* the leaf as a field of its own at the absolute offset that is the sum,
\* over the path, of field offset + array index * element size
LeafAtSum(leaf) ==
  [leaf.field.field EXCEPT
     !.offset_in_message_bytes = ElementStart(leaf),
     !.array_length = IF leaf.index >= 0 THEN -1 ELSE @]

\* a decode of a leaf through a well-formed path on resolved formats
DecodedLeaf ==
  /\ result # Pending
  /\ handler.header_complete
  /\ PathLeaf(handler, path, Len(path)).ok

\* C12: a leaf reached through nested-field selections and array indices
\* decodes exactly as a field lying at the absolute offset that is the sum
\* over the path of (field offset + array index * element size): the same
\* bytes are read and the same value or exception results; and on every value
\* of a resolved nested field, selecting by name gives the same Value as
\* selecting by the Field object the nested format has under that name.
\* (Checked under SpecAccess.)
C12_NestedAccess ==
  /\ DecodedLeaf =>
       result.out =
         Decoded(Value(LeafAtSum(PathLeaf(handler, path, Len(path))),
                       PathBacking(handler, path[1]), 0, -1),
                 result.T, result.build)
  /\ (/\ view # NoArg
      /\ view.exc = "none"
      /\ view.value.field.type.type = "NESTED"
      /\ definitionResolved(view.value.field))
     => \A name \in FieldNames :
          SelectName(handler.message_formats, view.value, name) =
            SelectFound(view.value,
                        nestedField(handler.message_formats, view.value.field,
                                    name))

\* C12: sample["b"][1][*q][1] with q the Field of "n": the uint16_t at
\* 1 + 1 * 6 + 1 + 1 * 2 = 10 of the sample, bytes (0, 128)
C12_NestedLeafDecoded ==
  /\ DecodedLeaf
  /\ Len(path) = 4
  /\ path[1].op = "at" /\ path[1].data.data = sampleO /\ path[1].name = Str("b")
  /\ path[2] = [op |-> "index", index |-> 1]
  /\ path[3] = [op |-> "select", name |-> Str("q"), how |-> "field"]
  /\ path[4] = [op |-> "index", index |-> 1]
  /\ result.T = [type |-> "UINT16", shape |-> "scalar"]
  /\ result.out.exc = "none"
  /\ result.out.reads = {10, 11}
  /\ result.out.res = 32768

---------------------------------------------------------------------------
(* C13 *)

\* a decode of a numeric or bool field has ended
NumericDecode ==
  /\ result # Pending
  /\ view.value.field.type.type \notin {"CHAR", "NESTED"}

\* the distances of the bytes of the backing range [begin, backing_end)
BackingRange(v) == v.begin..(Len(v.backing) - 1)

\* the selections on v that must be refused
RefusedSelections(formats, v) ==
  /\ \A index \in 0..MaxIndex :
       (v.field.array_length < 0 \/ index >= v.field.array_length)
         => SelectIndex(v, index).exc = "ParsingException"
  /\ (v.field.type.type # "NESTED" \/ ~definitionResolved(v.field))
       => /\ SelectField(v, v.field).exc = "ParsingException"
          /\ \A name \in FieldNames :
               SelectName(formats, v, name).exc = "ParsingException"

\* C13: every decode of a numeric or bool field (a scalar, a selected array
\* element, a whole array) ends normally or with a ParsingException and reads
\* no byte outside [begin, backing_end); an index >= array_length, an index on
\* a non-array field, a field selection on a non-nested field and every
\* access (selection or decode) through an unresolved field raise a
\* ParsingException.  (Checked under SpecAccess.)
C13_AccessBounds ==
  /\ NumericDecode
       => /\ result.out.exc \in {"none", "ParsingException"}
          /\ result.out.reads \subseteq BackingRange(view.value)
  /\ (view # NoArg /\ view.exc = "none")
       => RefusedSelections(handler.message_formats, view.value)
  /\ (result # Pending /\ ~definitionResolved(view.value.field))
       => result.out.exc = "ParsingException"

\* C13: the failing case: the value of an info message whose field is not yet
\* resolved (offset -1) is decoded: the bounds check passes and the bytes are
\* copied from one before the backing vector
C13_UnresolvedDecodeReadsBefore ==
  /\ result # Pending
  /\ Len(path) = 1 /\ path[1].op = "value"
  /\ view.value.field.type.type = "INT16"
  /\ ~definitionResolved(view.value.field)
  /\ -1 \in result.out.reads
  /\ result.out.exc \in {"none", "fault"}

---------------------------------------------------------------------------
(* C14 *)

\* the bytes of element k of the field the value views
ElementBytes(v, k) ==
  [i \in 1..v.field.type.size |->
     v.backing[v.begin + v.field.offset_in_message_bytes +
               k * v.field.type.size + i]]

\* the integer an element holds; a char is taken as its unsigned value
HeldInteger(v, k) == NativeNumber(v.field.type.type, ElementBytes(v, k), FALSE)

\* x reduced modulo 2^width(V) and read with the signedness of V (every
\* integer of the model fits an int32_t)
ReducedTo(V, x) ==
  CASE V = "UINT8" -> x % 256
    [] V = "INT8" -> IF x % 256 >= 128 THEN (x % 256) - 256 ELSE x % 256
    [] V = "UINT16" -> x % 65536
    [] V = "INT16" -> IF x % 65536 >= 32768 THEN (x % 65536) - 65536
                      ELSE x % 65536
    [] V = "INT32" -> x

\* the bytes of a char array before its first NUL
RECURSIVE UpToNul(_, _, _)
UpToNul(v, k, n) ==
  IF k >= n \/ ElementBytes(v, k)[1] = 0 THEN <<>>
  ELSE <<ElementBytes(v, k)[1]>> \o UpToNul(v, k + 1, n)

\* what the cast laws give for as<T>() on the value
CastLaw(v, T) ==
  IF v.array_index >= 0 \/ v.field.array_length = -1
  THEN IF T.shape = "scalar"
       THEN ReducedTo(T.type, HeldInteger(v, IF v.array_index >= 0
                                             THEN v.array_index ELSE 0))
       ELSE <<ReducedTo(T.type, HeldInteger(v, IF v.array_index >= 0
                                               THEN v.array_index ELSE 0))>>
  ELSE IF T.shape = "string" THEN UpToNul(v, 0, v.field.array_length)
  ELSE IF T.shape = "vector"
    THEN [k \in 1..v.field.array_length |->
            ReducedTo(T.type, HeldInteger(v, k - 1))]
  ELSE ReducedTo(T.type, HeldInteger(v, 0))

\* as<T>() has returned on a resolved field of an integer type: an integer
\* target on a scalar, a selected element or an array that is not a string,
\* or a string target on a char array
CastReturned ==
  /\ result # Pending
  /\ result.out.exc = "none"
  /\ definitionResolved(view.value.field)
  /\ view.value.field.type.type # "NESTED"

\* C14: as<V>() of a scalar integer gives the value reduced modulo
\* 2^width(V) in V's signedness, a char counting as its unsigned value;
\* as<vector<V>>() of an array gives the element-wise cast of all its
\* elements; as<V>() of an array the cast of element 0; as<vector<V>>() of a
\* scalar or a selected element a one-element vector of the cast value;
\* as<string>() of a char array the bytes before its first NUL within
\* array_length.  (Checked under SpecAccess.)
C14_CastLaws ==
  CastReturned => result.out.res = CastLaw(view.value, result.T)

\* C14: the failing case: the char r = 200 of b[0], as<vector<int32_t>>()
\* where plain char is signed: the vector holds -56, as<int32_t>() gives 200
C14_CharToVectorSigned ==
  /\ CastReturned
  /\ view.value.field.type.type = "CHAR"
  /\ view.value.field.array_length = -1
  /\ ElementBytes(view.value, 0) = <<200>>
  /\ result.T = [type |-> "INT32", shape |-> "vector"]
  /\ result.build.char_is_signed
  /\ result.out.res = <<-56>>
  /\ Decoded(view.value, [type |-> "INT32", shape |-> "scalar"],
             result.build).res = 200

---------------------------------------------------------------------------
(* C15 *)

\* the key of a subscription in the (name, multi_id) index
OwnKey(subscription) ==
  <<subscription.add_logged_message.message_name,
    subscription.add_logged_message.multi_id>>

\* both indexes refer to the same subscriptions (the by-name index holds the
\* msg_id of the object it shares with the msg_id index)
IndexesAgree(h) ==
  /\ \A id \in DOMAIN h.subscriptions_by_message_id :
       /\ OwnKey(h.subscriptions_by_message_id[id])
            \in DOMAIN h.subscriptions_by_name_and_multi_id
       /\ h.subscriptions_by_name_and_multi_id[
            OwnKey(h.subscriptions_by_message_id[id])] = id
  /\ \A key \in DOMAIN h.subscriptions_by_name_and_multi_id :
       /\ h.subscriptions_by_name_and_multi_id[key]
            \in DOMAIN h.subscriptions_by_message_id
       /\ OwnKey(h.subscriptions_by_message_id[
                   h.subscriptions_by_name_and_multi_id[key]]) = key

\* the addLoggedMessage calls the container has accepted so far
AcceptedAdds ==
  {i \in 1..Len(calls) : calls[i].method = "addLoggedMessage"}

\* C15: after any sequence of accepted add_logged_message events the msg_id
\* index and the (name, multi_id) index of the DataContainer refer to the
\* same subscriptions, each found under its msg_id and under its own
\* (name, multi_id), also when two events with different msg_ids carry the
\* same (name, multi_id).  (Checked under SpecStored.)
C15_IndexesAgree ==
  handlerKind = "DataContainer" => IndexesAgree(handler)

\* C15: the failing case: msg_id 1 and msg_id 2 both subscribe ("m", 0); the
\* subscription of msg_id 2 is stored, and ("m", 0) leads to that of msg_id 1
C15_SecondSubscriptionNotByName ==
  /\ handlerKind = "DataContainer"
  /\ scenario.n = 2
  /\ Cardinality(AcceptedAdds) = 2
  /\ escaped = "none"
  /\ \A i \in 1..Len(calls) : calls[i].method # "error"
  /\ DOMAIN handler.subscriptions_by_message_id = {1, 2}
  /\ OwnKey(handler.subscriptions_by_message_id[2]) = <<Str("m"), 0>>
  /\ handler.subscriptions_by_name_and_multi_id[<<Str("m"), 0>>] = 1

---------------------------------------------------------------------------
(* C16 *)

\* the whole of a well-formed log has been parsed without an error
ParsedWhole ==
  /\ AllFed
  /\ escaped = "none"
  /\ \A i \in 1..Len(calls) : calls[i].method # "error"

\* the header of the log is held: its formats, its header-phase info
\* messages and its initial parameters
HoldsHeader(h) ==
  /\ DOMAIN h.message_formats = {Str("m")}
  /\ h.message_formats[Str("m")].fields_ordered[1].name = Str("x")
  /\ DOMAIN h.message_info = {Str("k")}
  /\ h.message_info[Str("k")].value = infoK.value
  /\ DOMAIN h.initial_parameters = {Str("p")}
  /\ h.initial_parameters[Str("p")].value = parameterP.value

\* nothing of the data phase of the log is held
HoldsNoData(h) ==
  /\ h.logging = <<>>
  /\ h.dropouts = <<>>
  /\ h.changed_parameters = <<>>
  /\ \A id \in DOMAIN h.subscriptions_by_message_id :
       h.subscriptions_by_message_id[id].samples = <<>>

\* C16 as stated: a DataContainer created with StorageConfig::Header that
\* has parsed a complete well-formed log holds its formats, header-phase info
\* messages, initial parameters and one subscription for every
\* AddLoggedMessage, and no samples, logging messages, dropouts or changed
\* parameters.  (Checked under SpecStored.)
C16_HeaderModeKeepsSubscriptions ==
  (handlerKind = "DataContainerHeader" /\ ParsedWhole)
    => /\ HoldsHeader(handler)
       /\ HoldsNoData(handler)
       /\ DOMAIN handler.subscriptions_by_message_id = {1, 2}

\* C16, amended: a DataContainer created with StorageConfig::Header that has
\* parsed a complete well-formed log holds its formats, header-phase info
\* messages and initial parameters, and holds no subscription, no sample, no
\* logging message, no dropout and no changed parameter: the Reader completes
\* the header before it passes on the first AddLoggedMessage.  (Checked under
\* SpecStored.)
C16_HeaderModeKeepsHeaderOnly ==
  (handlerKind = "DataContainerHeader" /\ ParsedWhole)
    => /\ HoldsHeader(handler)
       /\ HoldsNoData(handler)
       /\ handler.subscriptions_by_message_id = <<>>
       /\ handler.subscriptions_by_name_and_multi_id = <<>>

\* C16: a Header container after the whole log, which held two
\* AddLoggedMessage, two Data, a Logging, a Dropout and a changed parameter
C16_WholeLogIntoHeaderContainer ==
  /\ handlerKind = "DataContainerHeader"
  /\ handler.storage_config = "Header"
  /\ ParsedWhole
  /\ handler.header_complete
  /\ Cardinality(AcceptedAdds) = 2
  /\ Cardinality({i \in 1..Len(calls) : calls[i].method = "data"}) = 2
  /\ Cardinality({i \in 1..Len(calls) : calls[i].method = "parameter"}) = 2
  /\ \E i \in 1..Len(calls) : calls[i].method = "logging"
  /\ \E i \in 1..Len(calls) : calls[i].method = "dropout"
  /\ HoldsHeader(handler)
  /\ handler.subscriptions_by_message_id = <<>>

---------------------------------------------------------------------------
(* C17 .. C20: the SimpleWriter *)

HeaderCalls == {"writeInfo", "writeParameter", "writeMessageFormat"}
DataCalls ==
  {"writeParameterChange", "writeAddLoggedMessage", "writeTextMessage",
   "writeData"}

\* a method of the SimpleWriter has been called
MethodCalled == last # NoArg /\ last.n > 0

\* the last call threw a UsageException, passed no byte to the sink and left
\* the header flag, the formats and the subscriptions as they were
RefusedUnchanged ==
  /\ last.exc = "UsageException"
  /\ simple.writer.written = last.before.writer.written
  /\ simple.header_complete = last.before.header_complete
  /\ simple.formats = last.before.formats
  /\ simple.subscriptions = last.before.subscriptions

\* the last call was made in the wrong phase
WrongPhase ==
  \/ last.call \in HeaderCalls \cup {"headerComplete"}
       /\ last.before.header_complete
  \/ last.call \in DataCalls /\ ~last.before.header_complete

\* C17: writeInfo, writeParameter and writeMessageFormat succeed only before
\* headerComplete(), writeParameterChange, writeAddLoggedMessage,
\* writeTextMessage and writeData only after it, headerComplete() only once
\* (the header flag is never taken back); a call in the wrong phase raises
\* UsageException, passes no byte to the sink and leaves header flag,
\* formats and subscriptions unchanged.  (Checked under SpecSimple.)
C17_CallOrder ==
  MethodCalled =>
    /\ WrongPhase => RefusedUnchanged
    /\ last.before.header_complete => simple.header_complete
    /\ (last.call = "headerComplete" /\ last.exc = "none")
         => ~last.before.header_complete /\ simple.header_complete

\* C17: a second headerComplete(), after a first one that succeeded
C17_SecondHeaderCompleteRefused ==
  /\ MethodCalled
  /\ last.call = "headerComplete"
  /\ last.before.header_complete
  /\ last.exc = "UsageException"
  /\ simple = last.before

\* the text is a word of one or more characters of the set
WordOf(text, chars) == text # <<>> /\ {text[i] : i \in 1..Len(text)} \subseteq chars

Lower == 97..122
Upper == 65..90
Digit == 48..57

\* what writeMessageFormat must refuse, whatever else holds
MustRefuse(s, name, fields) ==
  \/ fields = <<>>
  \/ fields[1] # timestampField
  \/ name \in DOMAIN s.formats
  \/ ~WordOf(name, Lower \cup Upper \cup Digit \cup {95, 45, 47})
  \/ \E i \in 1..Len(fields) :
       ~WordOf(fields[i].name, Lower \cup Digit \cup {95})
  \/ \E i \in 1..Len(fields) :
       \A t \in 1..Len(kBasicTypes) : kBasicTypes[t].name # fields[i].type.name

\* C18: writeMessageFormat raises UsageException, registers no format and
\* writes no byte when the field list is empty, its first field is not the
\* scalar 'uint64_t timestamp', the format name is registered already, the
\* name does not fully match [a-zA-Z0-9_\-/]+, a field name does not fully
\* match [a-z0-9_]+, or a field type is none of the 12 basic types.
\* (Checked under SpecSimple.)
C18_FormatRejections ==
  (/\ MethodCalled
   /\ last.call = "writeMessageFormat"
   /\ MustRefuse(last.before, last.args.name, last.args.fields))
  => RefusedUnchanged

\* C18: a format refused in the header phase for its name 'e:' alone, after
\* one that was registered
C18_BadNameRefused ==
  /\ MethodCalled
  /\ last.call = "writeMessageFormat"
  /\ ~last.before.header_complete
  /\ last.args.name = Str("e:")
  /\ last.args.fields = <<timestampField>>
  /\ DOMAIN last.before.formats = {Str("g")}
  /\ RefusedUnchanged
  /\ last.named = Str("e:")

\* the bytes a field takes in a message of its format: 'uint8_t[0] a' none
DeclaredBytes(f) ==
  IF f.array_length = -1 THEN f.type.size ELSE f.type.size * f.array_length

\* the sum of the sizes of the fields before field i
RECURSIVE PrecedingBytes(_, _)
PrecedingBytes(fields, i) ==
  IF i <= 1 THEN 0
  ELSE PrecedingBytes(fields, i - 1) + DeclaredBytes(fields[i - 1])

\* the fields whose offset is no multiple of their base type size
MisalignedFields(fields) ==
  {i \in 1..Len(fields) : PrecedingBytes(fields, i) % fields[i].type.size # 0}

\* writeMessageFormat was called in the header phase with a format that
\* passes the naming and type checks
WellNamedFormatGiven ==
  /\ MethodCalled
  /\ last.call = "writeMessageFormat"
  /\ ~last.before.header_complete
  /\ ~MustRefuse(last.before, last.args.name, last.args.fields)

ExpectedSize(id) == last.before.formats[last.bound[id + 1]].message_size

\* what writeData(id, data) must refuse
MustRefuseData(id, data) ==
  \/ ~last.before.header_complete
  \/ id \notin 0..(Len(last.bound) - 1)
  \/ Len(data) < ExpectedSize(id)

\* C20: writeData(id, buffer) raises UsageException and writes nothing if the
\* header is not complete, if id was not returned by an earlier
\* writeAddLoggedMessage (which returns 0, 1, ... in turn), or if the buffer
\* is shorter than the message size recorded for the format bound to id;
\* otherwise it emits exactly one Data message with msg_id id whose payload
\* is the first expected_size bytes of the buffer.  (Checked under
\* SpecSimple.)
C20_WriteData ==
  /\ (MethodCalled /\ last.call = "writeAddLoggedMessage" /\ last.exc = "none")
       => last.ret = Len(last.bound) - 1
  /\ (MethodCalled /\ last.call = "writeData") =>
       IF MustRefuseData(last.args.id, last.args.data)
       THEN RefusedUnchanged
       ELSE /\ last.exc = "none"
            /\ simple.writer.written =
                 last.before.writer.written \o
                 RawHeader(ExpectedSize(last.args.id) + 2, ULogMessageType.DATA) \o
                 LE16(last.args.id) \o
                 SubSeq(last.args.data, 1, ExpectedSize(last.args.id))
            /\ simple.subscriptions = last.before.subscriptions
            /\ simple.formats = last.before.formats

\* C20: a struct of 10 bytes written for the format "g" of 9 bytes: one Data
\* message of 3 + 2 + 9 bytes, without the last byte of the struct
C20_PaddingCutOff ==
  /\ MethodCalled
  /\ last.call = "writeData"
  /\ last.exc = "none"
  /\ last.bound[last.args.id + 1] = Str("g")
  /\ Len(last.args.data) = 10
  /\ Len(simple.writer.written) = Len(last.before.writer.written) + 14
  /\ simple.writer.written[Len(simple.writer.written)] = 9


---------------------------------------------------------------------------
(* SimpleWriter to Reader: what has been written, read back.                *)

\* every call made on the SimpleWriter has returned, and the Reader has been
\* given everything it wrote
AllSucceededAndRead ==
  scenario.name = "simple" /\ fed > 0 /\ last.n = Len(last.done)

RECURSIVE WrittenTexts(_)
\* the text messages among the first n successful calls, in call order
WrittenTexts(n) ==
  IF n = 0 THEN <<>>
  ELSE WrittenTexts(n - 1) \o
       (IF last.done[n].call = "writeTextMessage"
        THEN <<last.done[n].args.logging>> ELSE <<>>)

RECURSIVE WrittenSamples(_, _)
\* the structs given to writeData under id among the first n successful calls
WrittenSamples(id, n) ==
  IF n = 0 THEN <<>>
  ELSE WrittenSamples(id, n - 1) \o
       (IF last.done[n].call = "writeData" /\ last.done[n].args.id = id
        THEN <<last.done[n].args.data>> ELSE <<>>)

IsPrefixOf(a, b) == Len(a) <= Len(b) /\ a = SubSeq(b, 1, Len(a))

\* the container holds the texts in write order
TextsStored ==
  /\ Len(handler.logging) = Len(WrittenTexts(Len(last.done)))
  /\ \A i \in 1..Len(handler.logging) :
       LoggingEq(handler.logging[i], WrittenTexts(Len(last.done))[i])

\* the subscription of every id returned holds its samples in write order
SamplesStored ==
  \A id \in 0..(Len(last.bound) - 1) :
    /\ id \in DOMAIN handler.subscriptions_by_message_id
    /\ LET samples == handler.subscriptions_by_message_id[id].samples
           written == WrittenSamples(id, Len(last.done))
       IN /\ Len(samples) = Len(written)
          /\ \A i \in 1..Len(samples) :
               IsPrefixOf(samples[i].data, written[i])

\* C21: a log written by SimpleWriter calls that all succeeded (text
\* messages of any text, the empty one included) is read by a Reader into a
\* FullLog DataContainer without a parsing error and without a fatal error,
\* and the container holds every written text message and every written
\* data sample in write order.
C21_WrittenLogReadsBack ==
  AllSucceededAndRead =>
    /\ escaped = "none"
    /\ handler.parsing_errors = <<>>
    /\ ~handler.had_fatal_error
    /\ TextsStored
    /\ SamplesStored

\* a log whose calls all succeeded and that holds a text message of no
\* character has been read back with a parsing error
C21_EmptyTextRefusedOnReading ==
  /\ AllSucceededAndRead
  /\ \E i \in 1..Len(last.done) :
       /\ last.done[i].call = "writeTextMessage"
       /\ last.done[i].args.logging.message = <<>>
  /\ handler.parsing_errors # <<>>

\* the same claim for logs that hold no text message of no character
C21_NonEmptyTextsReadBack ==
  (AllSucceededAndRead /\
   \A i \in 1..Len(last.done) :
     last.done[i].call = "writeTextMessage" =>
       last.done[i].args.logging.message # <<>>) =>
    /\ escaped = "none"
    /\ handler.parsing_errors = <<>>
    /\ ~handler.had_fatal_error
    /\ TextsStored
    /\ SamplesStored


---------------------------------------------------------------------------
(* The header of a log.                                                     *)

\* the number of calls of method made on the handler
CallCount(method) ==
  Cardinality({i \in 1..Len(calls) : calls[i].method = method})

\* a DataContainer that holds nothing but the file header
HoldsNothing ==
  /\ handler.message_formats = <<>>
  /\ handler.subscriptions_by_message_id = <<>>
  /\ handler.subscriptions_by_name_and_multi_id = <<>>
  /\ handler.message_info = <<>>
  /\ handler.message_info_multi = <<>>
  /\ handler.initial_parameters = <<>>
  /\ handler.default_parameters = <<>>
  /\ handler.changed_parameters = <<>>
  /\ handler.logging = <<>>
  /\ handler.dropouts = <<>>

\* the log of the file header alone has been fed whole, without an error
HeaderOnlyFed ==
  /\ scenario.name = "header_only"
  /\ AllFed
  /\ CallCount("error") = 0

\* C22: when a log that consists of the file header alone (magic and
\* flag-bits message) has been fed whole, the handler has received exactly
\* one headerComplete callback, isHeaderComplete() is true, and the
\* container holds no format, subscription, info, parameter, logging or
\* dropout.
C22_HeaderOnlyLogCompletes ==
  HeaderOnlyFed =>
    /\ CallCount("headerComplete") = 1
    /\ handler.header_complete
    /\ HoldsNothing

\* the file header alone has been fed whole and accepted: the container is
\* empty, and no headerComplete callback has been made
C22_HeaderOnlyNeverCompleted ==
  /\ HeaderOnlyFed
  /\ CallCount("fileHeader") = 1
  /\ HoldsNothing
  /\ CallCount("headerComplete") = 0
  /\ ~handler.header_complete


\* the formats of the log nest each other in a circle, and the handler has
\* been told that the header is complete
CycleAtHeaderComplete ==
  scenario.name = "cycle" /\ CallCount("headerComplete") >= 1

\* C23: when the registry holds formats that nest each other in a circle (a
\* format with a field of its own type included), the resolution at header
\* completion terminates and the circle is reported as a fatal error.
C23_CycleIsFatal ==
  CycleAtHeaderComplete =>
    /\ handler.had_fatal_error
    /\ \E i \in 1..Len(calls) : IsFatalError(calls[i])

\* the resolution of a circle has ended without any error: the header is
\* complete, every field of the circle counts as resolved, and the formats
\* of the circle have a size of 0
C23_CycleResolvedSilently ==
  /\ CycleAtHeaderComplete
  /\ handler.header_complete
  /\ CallCount("error") = 0
  /\ handler.parsing_errors = <<>>
  /\ \A name \in DOMAIN handler.message_formats :
       /\ \A i \in 1..Len(handler.message_formats[name].fields_ordered) :
            definitionResolved(handler.message_formats[name].fields_ordered[i])
       /\ FormatSizeBytes(handler.message_formats[name]) =
            [exc |-> "none", size |-> 0]


---------------------------------------------------------------------------
(* The events of a DataContainer.                                           *)

MaxOffset == 3     \* offsets 0..MaxOffset are passed to resolveDefinition

\* the fields the container holds: those of its formats, and those of its
\* info messages
RegisteredFields ==
  UNION {{handler.message_formats[name].fields_ordered[i] :
            i \in 1..Len(handler.message_formats[name].fields_ordered)} :
         name \in DOMAIN handler.message_formats}
HeldFields ==
  RegisteredFields
  \cup {handler.message_info[k].field : k \in DOMAIN handler.message_info}

\* headerComplete() has been called once more, after an earlier call
SecondResolution ==
  /\ scenario.name = "calls"
  /\ last.method = "headerComplete"
  /\ last.phase = DataPhase

\* C24: resolution is idempotent.  A second resolution of the registry
\* changes no offset, size or nested link (it leaves the container as it
\* was), an info message that arrives behind the header leaves the resolved
\* formats as they were, and a resolved field is not modified by a later
\* resolveDefinition call, whatever offset is passed.
C24_ResolutionIdempotent ==
  /\ SecondResolution => handler = last.before
  /\ (last.method = "messageInfo" /\ last.before.header_complete) =>
       handler.message_formats = last.before.message_formats
  /\ \A f \in HeldFields, offset \in 0..MaxOffset :
       definitionResolved(f) =>
         /\ ResolveField(handler.message_formats, f, offset) =
              [exc |-> "none", formats |-> handler.message_formats,
               field |-> f]
         /\ ResolveOffset(f, offset) = [exc |-> "none", field |-> f]

\* a registry with a resolved format of two fields, the second at an offset
\* other than 0, has been resolved a second time
C24_ResolvedTwice ==
  /\ SecondResolution
  /\ last.before.header_complete
  /\ \E name \in DOMAIN handler.message_formats :
       /\ Len(handler.message_formats[name].fields_ordered) = 2
       /\ definitionResolved(handler.message_formats[name].fields_ordered[2])
       /\ handler.message_formats[name].fields_ordered[2]
            .offset_in_message_bytes = 1


---------------------------------------------------------------------------
(* The order of the callbacks of a Reader.                                  *)

\* the callbacks behind the file header: every one but error and fileHeader
IsLaterCall(c) == c.method \notin {"error", "fileHeader"}

DataSectionMethods == {"addLoggedMessage", "logging", "data", "dropout", "sync"}

\* the call at index i has a call of method before it
Preceded(i, method) == \E j \in 1..(i - 1) : calls[j].method = method

\* fileHeader at most once and before every other message callback,
\* messageFormat never behind headerComplete, the callbacks of the data
\* section only behind it
CallbacksInPhaseOrder ==
  /\ CallCount("fileHeader") <= 1
  /\ \A i \in 1..Len(calls) :
       /\ IsLaterCall(calls[i]) => Preceded(i, "fileHeader")
       /\ calls[i].method = "messageFormat" => ~Preceded(i, "headerComplete")
       /\ calls[i].method \in DataSectionMethods =>
            Preceded(i, "headerComplete")

StateRank(state) ==
  CASE state = "ReadMagic" -> 0
    [] state = "ReadFlagBits" -> 1
    [] state = "ReadHeader" -> 2
    [] state = "ReadData" -> 3
    [] state = "InvalidData" -> 4

\* a readChunk call leaves the parser in its state or further on
StateMovesForward == StateRank(reader'.state) >= StateRank(reader.state)

---------------------------------------------------------------------------
(* The flag bits.                                                           *)

ErrorCount(text) ==
  Cardinality({i \in 1..Len(calls) :
                 calls[i].method = "error" /\ calls[i].arg.msg = text})

\* readFlagBits has run on a chunk that held the 43 bytes it looks at
FlagBitsRead ==
  /\ scenario.name \in {"flags", "no_flags", "header_only"}
  /\ reader.state \notin {"ReadMagic", "ReadFlagBits"}
  /\ ErrorCount("Not enough data to read file magic") = 0
  /\ ErrorCount("Not enough data to read file flags") = 0

\* what the log of the run has in its flag-bits message
FlagsOfLog ==
  IF scenario.name = "flags" THEN FlagSettings[scenario.n]
  ELSE [incompat0 |-> 0, incompat2 |-> 0, appended |-> 0]
HasFlagBits == scenario.name # "no_flags"
UnknownIncompat ==
  FlagsOfLog.incompat0 \notin {0, ULOG_INCOMPAT_FLAG0_DATA_APPENDED_MASK}
  \/ FlagsOfLog.incompat2 # 0

\* the one fileHeader callback of the run
TheFileHeader ==
  calls[CHOOSE i \in 1..Len(calls) : calls[i].method = "fileHeader"].arg

\* the messages behind the file header have been parsed
RestParsed ==
  /\ CallCount("messageFormat") = 1
  /\ DOMAIN handler.message_formats = {Str("m")}
  /\ Len(handler.subscriptions_by_message_id[1].samples) = 2
  /\ Len(handler.logging) = 1

\* the file is refused: a fatal error, no fileHeader, nothing parsed
Refused ==
  /\ reader.state = "InvalidData"
  /\ CallCount("fileHeader") = 0
  /\ ErrorCount("Unknown incompatible flag set: cannot parse the log") = 1
  /\ handler.had_fatal_error
  /\ \A i \in 1..Len(calls) : calls[i].method = "error"

\* the file is accepted with its flag bits
AcceptedWithFlagBits ==
  /\ reader.state \in {"ReadHeader", "ReadData"}
  /\ CallCount("fileHeader") = 1
  /\ calls[IF FlagsOfLog.appended # 0 THEN 2 ELSE 1].method = "fileHeader"
  /\ TheFileHeader.has_flag_bits
  /\ TheFileHeader.flag_bits.incompat_flags[1] = FlagsOfLog.incompat0
  /\ TheFileHeader.flag_bits.appended_offsets[1] = FlagsOfLog.appended
  /\ ~handler.had_fatal_error
  /\ ErrorCount("File contains appended offsets - this is not supported") =
       (IF FlagsOfLog.appended # 0 THEN 1 ELSE 0)
  /\ Len(handler.parsing_errors) = (IF FlagsOfLog.appended # 0 THEN 1 ELSE 0)
  /\ (AllFed /\ scenario.name = "flags") => RestParsed

\* the file has no flag bits: the message behind the magic is the first
\* header message
AcceptedWithoutFlagBits ==
  /\ reader.state \in {"ReadHeader", "ReadData"}
  /\ CallCount("fileHeader") = 1
  /\ calls[1].method = "fileHeader"
  /\ ~TheFileHeader.has_flag_bits
  /\ handler.parsing_errors = <<>>
  /\ Len(calls) >= 2 =>
       /\ calls[2].method = "messageFormat"
       /\ MessageFormatEq(calls[2].arg, formatM)
  /\ AllFed => RestParsed

---------------------------------------------------------------------------
(* Rejected events.                                                         *)

\* the last message was constructed, and the container has thrown on it
RejectedByContainer ==
  /\ scenario.name = "calls"
  /\ last.n >= 1
  /\ last.parsed.exc = "none"
  /\ last.exc = "ParsingException"

\* a format of a name that is held, an AddLoggedMessage of a msg_id that is
\* held or of a format name that is not, a Data message of a msg_id that is
\* not held
RejectedFormatAddOrData ==
  /\ RejectedByContainer
  /\ last.method \in {"messageFormat", "addLoggedMessage", "data"}

\* a continued info-multi message with no message under its key before it
RejectedContinuedInfo ==
  /\ RejectedByContainer
  /\ last.method = "messageInfo"
  /\ last.parsed.obj.is_multi
  /\ last.parsed.obj.continued

\* C27: when a DataContainer rejects an event with a parse error (a format
\* of a name it holds, an AddLoggedMessage with a msg_id it holds or with
\* an unknown format name, a Data message for an unknown msg_id, a
\* continued info-multi message with no earlier message under its key),
\* every stored collection is exactly as before the event.
C27_RejectionLeavesNoTrace ==
  (RejectedFormatAddOrData \/ RejectedContinuedInfo) => handler = last.before

\* a continued info-multi message has been rejected, and the info-multi map
\* has an entry under its key that it had not before
C27_RejectedInfoLeftEntry ==
  /\ RejectedContinuedInfo
  /\ last.parsed.obj.field.name \notin DOMAIN last.before.message_info_multi
  /\ last.parsed.obj.field.name \in DOMAIN handler.message_info_multi
  /\ handler.message_info_multi[last.parsed.obj.field.name] = <<>>

\* the same claim without the info-multi case
C27_OtherRejectionsLeaveNoTrace ==
  RejectedFormatAddOrData => handler = last.before


---------------------------------------------------------------------------
(* The samples of a subscription.                                           *)

\* the last event was a Data message of msg_id that the container accepted
AcceptedData(msg_id) ==
  /\ last.method = "data"
  /\ last.parsed.exc = "none"
  /\ last.exc = "none"
  /\ last.parsed.obj.msg_id = msg_id

SamplesOf(h, msg_id) == h.subscriptions_by_message_id[msg_id].samples

\* the event has left the subscription of msg_id with the samples it had,
\* and with the Data message behind them when it was one of its own
SamplesGrownByAppending(msg_id) ==
  /\ msg_id \in DOMAIN handler.subscriptions_by_message_id
  /\ handler.subscriptions_by_message_id[msg_id].format =
       last.before.subscriptions_by_message_id[msg_id].format
  /\ SamplesOf(handler, msg_id) =
       IF AcceptedData(msg_id)
       THEN Append(SamplesOf(last.before, msg_id), last.parsed.obj)
       ELSE SamplesOf(last.before, msg_id)

\* C28: in FullLog mode the samples of each subscription only grow by
\* appending, every event leaving them as they were or, when it is an
\* accepted Data message of the msg_id, with that message behind them (so
\* they are the accepted Data events of the msg_id in arrival order), and
\* no format and no subscription is ever removed.
C28_SamplesAppendOnly ==
  (scenario.name = "calls" /\ last.n >= 1) =>
    /\ \A msg_id \in DOMAIN last.before.subscriptions_by_message_id :
         SamplesGrownByAppending(msg_id)
    /\ DOMAIN last.before.subscriptions_by_name_and_multi_id
         \subseteq DOMAIN handler.subscriptions_by_name_and_multi_id
    /\ DOMAIN last.before.message_formats \subseteq DOMAIN handler.message_formats
    /\ \A msg_id \in 0..9 :
         AcceptedData(msg_id) =>
           msg_id \in DOMAIN last.before.subscriptions_by_message_id

\* a third Data message of msg_id 1 has been stored behind two others, in
\* the order of arrival
C28_ThirdSampleAppended ==
  /\ scenario.name = "calls"
  /\ AcceptedData(1)
  /\ Len(SamplesOf(last.before, 1)) = 2
  /\ SamplesOf(last.before, 1)[1].data # SamplesOf(last.before, 1)[2].data
  /\ SamplesOf(handler, 1) =
       Append(SamplesOf(last.before, 1), last.parsed.obj)


\* sizeBytes() of the format a subscription is bound to
SubscribedSize(msg_id) ==
  FormatSizeBytes(
    handler.message_formats[handler.subscriptions_by_message_id[msg_id].format])

\* C29: the payload of every stored sample is as long as sizeBytes() of the
\* resolved format of its subscription; a Data message with a payload of
\* another length is not stored.
C29_SampleLengths ==
  (scenario.name = "calls" /\ handler.header_complete) =>
    \A msg_id \in DOMAIN handler.subscriptions_by_message_id :
      \A i \in 1..Len(SamplesOf(handler, msg_id)) :
        /\ SubscribedSize(msg_id).exc = "none"
        /\ Len(SamplesOf(handler, msg_id)[i].data) = SubscribedSize(msg_id).size

\* a Data message of two bytes has been stored as a sample of the format
\* 'm:uint8_t x;', whose sizeBytes() is 1
C29_LongSampleStored ==
  /\ scenario.name = "calls"
  /\ handler.header_complete
  /\ AcceptedData(1)
  /\ handler.subscriptions_by_message_id[1].format = Str("m")
  /\ MessageFormatEq(handler.message_formats[Str("m")], formatM)
  /\ SubscribedSize(1) = [exc |-> "none", size |-> 1]
  /\ Len(last.parsed.obj.data) = 2
  /\ SamplesOf(handler, 1)[Len(SamplesOf(handler, 1))] = last.parsed.obj


---------------------------------------------------------------------------
(* The field names of a format.                                             *)

\* the names of the fields of a format are pairwise distinct, and its index
\* by name refers to each field of its sequence
DistinctFieldNames(format) ==
  /\ \A i, j \in 1..Len(format.fields_ordered) :
       i # j => format.fields_ordered[i].name # format.fields_ordered[j].name
  /\ {format.fields[n] : n \in DOMAIN format.fields} =
       1..Len(format.fields_ordered)

\* C30: every MessageFormat held has pairwise distinct field names (a format
\* message with two fields of one name is rejected with a parse error), so
\* that its index by name and its ordered sequence hold the same fields.
C30_FieldNamesDistinct ==
  scenario.name = "calls" =>
    \A name \in DOMAIN handler.message_formats :
      DistinctFieldNames(handler.message_formats[name])

\* the format message 'd:uint8_t x;uint16_t x;' has been accepted: the
\* format is held with two fields named x, one of them in its index
C30_DoubledNameAccepted ==
  /\ scenario.name = "calls"
  /\ last.method = "messageFormat"
  /\ last.parsed.exc = "none"
  /\ last.exc = "none"
  /\ Str("d") \in DOMAIN handler.message_formats
  /\ Len(handler.message_formats[Str("d")].fields_ordered) = 2
  /\ handler.message_formats[Str("d")].fields_ordered[1].name = Str("x")
  /\ handler.message_formats[Str("d")].fields_ordered[2].name = Str("x")
  /\ DOMAIN handler.message_formats[Str("d")].fields = {Str("x")}


---------------------------------------------------------------------------
(* The size of a field.                                                     *)

Max(a, b) == IF a >= b THEN a ELSE b

\* the log of the SimpleWriter has been read back, and the container has
\* resolved its formats
ReadBackResolved ==
  /\ scenario.name = "simple"
  /\ fed > 0
  /\ handler.header_complete

\* size of the base element times max(array length, 1)
SizeByRule(f) == f.type.size * Max(f.array_length, 1)

\* the fields of a resolved format have the size of the rule, and each lies
\* behind the one before it by that size
FieldSizesByRule(format) ==
  \A i \in 1..Len(format.fields_ordered) :
    LET f == format.fields_ordered[i]
    IN /\ definitionResolved(f)
       /\ FieldSizeBytes(f) = SizeByRule(f)
       /\ f.offset_in_message_bytes =
            IF i = 1 THEN 0
            ELSE format.fields_ordered[i - 1].offset_in_message_bytes +
                 SizeByRule(format.fields_ordered[i - 1])

\* C31: a resolved field of basic type with array length A (-1 for a scalar)
\* has sizeBytes = basic size * max(A, 1); an array of length 0 advances the
\* running offset by the basic size, which is the size the SimpleWriter adds
\* for such a field to the message size of a format.
C31_FieldSize ==
  ReadBackResolved =>
    \A name \in DOMAIN handler.message_formats :
      /\ FieldSizesByRule(handler.message_formats[name])
      /\ name \in DOMAIN simple.formats
      /\ FormatSizeBytes(handler.message_formats[name]) =
           [exc |-> "none", size |-> simple.formats[name].message_size]

\* the format 'y:uint64_t timestamp;uint8_t[0] a;' has been written and read
\* back: the SimpleWriter has counted 9 bytes, and the resolved field a has
\* sizeBytes() 0, the format 8
C31_EmptyArrayHasNoSize ==
  /\ ReadBackResolved
  /\ Str("y") \in DOMAIN handler.message_formats
  /\ simple.formats[Str("y")].message_size = 9
  /\ LET a == handler.message_formats[Str("y")].fields_ordered[2]
     IN /\ a.array_length = 0
        /\ definitionResolved(a)
        /\ FieldSizeBytes(a) = 0
        /\ SizeByRule(a) = 1
  /\ FormatSizeBytes(handler.message_formats[Str("y")]) =
       [exc |-> "none", size |-> 8]

\* the same claim for formats without an array of length 0
C31_FieldSizeOfNonEmpty ==
  ReadBackResolved =>
    \A name \in DOMAIN handler.message_formats :
      (\A i \in 1..Len(handler.message_formats[name].fields_ordered) :
         handler.message_formats[name].fields_ordered[i].array_length # 0) =>
        /\ FieldSizesByRule(handler.message_formats[name])
        /\ FormatSizeBytes(handler.message_formats[name]) =
             [exc |-> "none", size |-> simple.formats[name].message_size]


---------------------------------------------------------------------------
(* The groups of info-multi messages.                                       *)

\* the groups under every key are well formed: at least one group, no empty
\* group, the first message of a group not continued, the others continued
GroupsWellFormed(multi) ==
  \A key \in DOMAIN multi :
    /\ Len(multi[key]) >= 1
    /\ \A g \in 1..Len(multi[key]) :
         /\ Len(multi[key][g]) >= 1
         /\ ~multi[key][g][1].continued
         /\ \A i \in 2..Len(multi[key][g]) : multi[key][g][i].continued
         /\ \A i \in 1..Len(multi[key][g]) :
              /\ multi[key][g][i].is_multi
              /\ multi[key][g][i].field.name = key

\* the last event was an info-multi message that the container accepted
AcceptedInfoMulti ==
  /\ last.method = "messageInfo"
  /\ last.parsed.exc = "none"
  /\ last.exc = "none"
  /\ last.parsed.obj.is_multi

GroupsBefore(key) ==
  IF key \in DOMAIN last.before.message_info_multi
  THEN last.before.message_info_multi[key] ELSE <<>>

\* the message as it was stored and as it arrived: the same but for the
\* resolution of its field
SameInfo(stored, arrived) ==
  /\ stored.value = arrived.value
  /\ stored.continued = arrived.continued
  /\ stored.is_multi = arrived.is_multi
  /\ stored.field.name = arrived.field.name

\* the accepted message is the last of the last group of its key, a group
\* of its own when it is not continued; everything before it is as it was
StitchedBehind(arrived) ==
  LET key == arrived.field.name
      groups == handler.message_info_multi[key]
      before == GroupsBefore(key)
  IN /\ key \in DOMAIN handler.message_info_multi
     /\ IF arrived.continued
        THEN /\ Len(groups) = Len(before)
             /\ Len(before) >= 1
             /\ \A g \in 1..(Len(before) - 1) : groups[g] = before[g]
             /\ Len(groups[Len(groups)]) = Len(before[Len(before)]) + 1
             /\ SubSeq(groups[Len(groups)], 1, Len(before[Len(before)])) =
                  before[Len(before)]
             /\ SameInfo(groups[Len(groups)][Len(groups[Len(groups)])],
                         arrived)
        ELSE /\ Len(groups) = Len(before) + 1
             /\ SubSeq(groups, 1, Len(before)) = before
             /\ Len(groups[Len(groups)]) = 1
             /\ SameInfo(groups[Len(groups)][1], arrived)
     /\ \A other \in DOMAIN handler.message_info_multi \ {key} :
          /\ other \in DOMAIN last.before.message_info_multi
          /\ handler.message_info_multi[other] =
               last.before.message_info_multi[other]

\* C32: in messageInfoMulti() every key maps to at least one group, every
\* group is non-empty, its first message has is_continued = false and its
\* later messages have is_continued = true, the messages of a group are in
\* arrival order, and a continued message is appended to the group of its
\* own key that was started last.
C32_InfoMultiStitching ==
  (scenario.name = "calls" /\ last.n >= 1) =>
    /\ GroupsWellFormed(handler.message_info_multi)
    /\ AcceptedInfoMulti => StitchedBehind(last.parsed.obj)
    /\ ~AcceptedInfoMulti /\ last.exc = "none" =>
         handler.message_info_multi = last.before.message_info_multi

\* a continued message has been refused for want of an earlier message, and
\* its key is held with no group at all
C32_KeyWithoutGroup ==
  /\ scenario.name = "calls"
  /\ last.method = "messageInfo"
  /\ last.exc = "ParsingException"
  /\ \E key \in DOMAIN handler.message_info_multi :
       handler.message_info_multi[key] = <<>>

\* the same claim for the keys that hold a group, and for accepted events
C32_StitchingOfAccepted ==
  (scenario.name = "calls" /\ last.n >= 1) =>
    /\ GroupsWellFormed(
         [key \in {k \in DOMAIN handler.message_info_multi :
                     handler.message_info_multi[k] # <<>>} |->
            handler.message_info_multi[key]])
    /\ AcceptedInfoMulti => StitchedBehind(last.parsed.obj)

\* a continued message has been put behind the message that opened its key,
\* while another key holds a group of its own
C32_ContinuedStitched ==
  /\ scenario.name = "calls"
  /\ AcceptedInfoMulti
  /\ last.parsed.obj.continued
  /\ StitchedBehind(last.parsed.obj)
  /\ Str("e") \in DOMAIN handler.message_info_multi
  /\ Len(handler.message_info_multi[Str("c")]) = 2


\* the event was a Parameter message that the constructor accepted
ParameterArrived ==
  /\ scenario.name = "calls"
  /\ last.n >= 1
  /\ last.method = "parameter"
  /\ last.parsed.exc = "none"

\* the parameter of the event is the last of the changed parameters, behind
\* those that were there
AppendedToChanged ==
  /\ Len(handler.changed_parameters) = Len(last.before.changed_parameters) + 1
  /\ SubSeq(handler.changed_parameters, 1,
            Len(last.before.changed_parameters)) =
       last.before.changed_parameters
  /\ LET stored == handler.changed_parameters[Len(handler.changed_parameters)]
     IN /\ stored.field.name = last.parsed.obj.field.name
        /\ stored.field.type = last.parsed.obj.field.type
        /\ stored.value = last.parsed.obj.value

\* C33: in a FullLog DataContainer a parameter that arrives before the
\* header is complete is stored in the initial parameters under its name
\* and the changed parameters stay as they were; a parameter that arrives
\* after a successful header completion is appended behind the changed
\* parameters, in arrival order, and the initial parameters stay as they
\* were.  (Checked under SpecParameters.)
C33_ParameterRouting ==
  ParameterArrived =>
    /\ last.exc = "none"
    /\ ~last.before.header_complete =>
         /\ last.parsed.obj.field.name \in DOMAIN handler.initial_parameters
         /\ handler.initial_parameters =
              MapInsert(last.before.initial_parameters,
                        last.parsed.obj.field.name, last.parsed.obj)
         /\ handler.changed_parameters = last.before.changed_parameters
    /\ last.before.header_complete =>
         /\ AppendedToChanged
         /\ handler.initial_parameters = last.before.initial_parameters

\* a second change of the parameter p arrived after the header was complete
\* and stands behind the first one, while the initial value of p is the one
\* of the header
C33_SecondChangeAppended ==
  /\ ParameterArrived
  /\ last.before.header_complete
  /\ Len(last.before.changed_parameters) = 1
  /\ AppendedToChanged
  /\ handler.changed_parameters[1].value # handler.changed_parameters[2].value
  /\ Str("p") \in DOMAIN handler.initial_parameters
  /\ handler.initial_parameters[Str("p")].value = parameterP.value

\* a parameter arrived before the header was complete and is the initial
\* value of its name
C33_InitialStored ==
  /\ ParameterArrived
  /\ ~last.before.header_complete
  /\ last.parsed.obj.field.name \notin DOMAIN last.before.initial_parameters
  /\ handler.initial_parameters[last.parsed.obj.field.name] = last.parsed.obj
  /\ handler.changed_parameters = <<>>


\* the map in which the DataContainer h stores what the event brought under
\* a name, when the event is one of those that store under a name: an info
\* message that is not multi, a parameter before the header is complete, a
\* parameter default
NamedStore(h) ==
  IF last.method = "messageInfo" THEN h.message_info
  ELSE IF last.method = "parameter" THEN h.initial_parameters
  ELSE h.default_parameters

\* the event brought a value under a name that the DataContainer had stored
NameStoredBefore ==
  /\ scenario.name = "calls"
  /\ last.n >= 1
  /\ last.parsed.exc = "none"
  /\ \/ last.method = "messageInfo" /\ ~last.parsed.obj.is_multi
     \/ last.method = "parameter" /\ ~last.before.header_complete
     \/ last.method = "parameterDefault"
  /\ last.parsed.obj.field.name \in DOMAIN NamedStore(last.before)

\* C34: when an info message that is not multi, an initial parameter or a
\* parameter default arrives with a name that is already stored, the
\* DataContainer keeps the value stored first, discards the later one, and
\* reports no error.  (Checked under SpecParameters.)
C34_FirstValueKept ==
  NameStoredBefore =>
    /\ last.exc = "none"
    /\ NamedStore(handler) = NamedStore(last.before)
    /\ handler = last.before

\* a second value of a stored name arrived, different from the first, for
\* a parameter default
C34_SecondDefaultDiscarded ==
  /\ NameStoredBefore
  /\ last.method = "parameterDefault"
  /\ last.parsed.obj.value #
       last.before.default_parameters[last.parsed.obj.field.name].value
  /\ handler.default_parameters = last.before.default_parameters

\* the same for an info message, after the header was complete
C34_SecondInfoDiscarded ==
  /\ NameStoredBefore
  /\ last.method = "messageInfo"
  /\ last.before.header_complete
  /\ last.parsed.obj.value #
       last.before.message_info[last.parsed.obj.field.name].value

\* the same for an initial parameter
C34_SecondParameterDiscarded ==
  /\ NameStoredBefore
  /\ last.method = "parameter"
  /\ last.parsed.obj.value #
       last.before.initial_parameters[last.parsed.obj.field.name].value


\* C35: readChunk ends for every state of the parser and every chunk: each
\* pass of the message loop and of the recovery loop takes an input byte,
\* takes a byte out of the reassembly buffer, or leaves the loop, so that
\* every call comes back, with all its nested invocations left.  (Checked
\* under SpecChunks.)
C35_ReadChunkTerminates ==
  last.kind = "readChunk" => ~last.stalled /\ last.depth = 0

\* a call that met one corruption in a chunk longer than the reassembly
\* buffer, went through the message loop and more than once through the
\* recovery loop, and came back
C35_LoopsPassed ==
  /\ last.kind = "readChunk"
  /\ last.given > kBufferSizeInit
  /\ last.episodes = 1
  /\ last.message_iterations >= 2
  /\ last.recovery_iterations >= 2
  /\ ~last.stalled

\* C36: during a top-level readChunk call no more than two invocations of
\* readChunk are nested (the top-level call and one call made by
\* tryToRecover), however many corruptions the chunk holds.  (Checked under
\* SpecChunks.)
C36_NestingAtMostTwo ==
  last.kind = "readChunk" => last.deepest <= 2

\* a chunk longer than the reassembly buffer with two corrupt messages has
\* been read with three invocations of readChunk nested
C36_NestedThreeDeep ==
  /\ last.kind = "readChunk"
  /\ last.given > kBufferSizeInit
  /\ last.episodes = 2
  /\ last.deepest = 3
  /\ ~last.stalled

\* what holds instead: the invocations nested in a call are no more than
\* the corruptions met so far, and one
C36_NestingWithinEpisodes ==
  last.kind = "readChunk" => last.deepest <= episodes + 1


\* C37: readChunk never moves its cursor past the end of the chunk: the
\* length that is left is never negative (it only goes down, so it is enough
\* that it is not negative when the call returns), also when a flag-bits
\* message states a msg_size beyond the bytes left in the chunk.  (Checked
\* under SpecChunks.)
C37_CursorWithinChunk ==
  last.kind = "readChunk" => last.length >= 0

\* a call that read the flag-bits message of a log whose flag-bits message
\* is longer than 40 bytes, from a chunk that ends within it, has come back
\* with a negative length
C37_CursorPastEnd ==
  /\ last.kind = "readChunk"
  /\ scenario.name = "long_flags"
  /\ last.state \in {"ReadMagic", "ReadFlagBits"}
  /\ reader.state = "ReadHeader"
  /\ last.length < 0

\* what holds: a call that begins behind the flag bits keeps its cursor
\* within the chunk
C37_CursorWithinChunkBehindFlagBits ==
  (last.kind = "readChunk" /\ last.given >= 1
     /\ last.state \notin {"ReadMagic", "ReadFlagBits"}) =>
    last.length >= 0


\* the distance of the first byte of the char array of the view from the
\* start of the backing vector: string_start_iterator
StringStart == view.value.begin + view.value.field.offset_in_message_bytes

\* as<T>() has been called on a whole char array of a resolved field that
\* lies within the backing vector, so that strnlen(string_start,
\* arrayLength()) has run
CharArrayDecoded ==
  /\ result # Pending
  /\ view.exc = "none"
  /\ definitionResolved(view.value.field)
  /\ view.value.field.type.type = "CHAR"
  /\ view.value.field.array_length >= 0
  /\ view.value.array_index < 0
  /\ Len(view.value.backing) - StringStart >= view.value.field.array_length

\* the bytes ptr[0 .. max_len - 1] hold no zero
FillsItsField ==
  \A k \in 0..(view.value.field.array_length - 1) :
    view.value.backing[StringStart + k + 1] # 0

\* C38: strnlen(ptr, max_len) gives the number of bytes before the first
\* zero byte among ptr[0 .. max_len - 1], or max_len when there is none, and
\* reads no byte at an index >= max_len, so that the decoding of a char
\* array that fills its field and ends at the end of the backing vector
\* reads nothing behind the vector.  (Checked under SpecAccess.)
C38_StrnlenWithinMaxLen ==
  CharArrayDecoded =>
    /\ result.out.reads \subseteq
         StringStart..(StringStart + view.value.field.array_length - 1)
    /\ result.out.exc # "fault"
    /\ (result.out.exc = "none" /\ result.T.shape = "string") =>
         result.out.res =
           UpToNul(view.value, 0, view.value.field.array_length)

\* a char array that fills its field and ends at the end of the backing
\* vector has been decoded, and the byte behind the vector has been read
C38_ReadBehindBuffer ==
  /\ CharArrayDecoded
  /\ result.T.shape = "string"
  /\ view.value.field.array_length >= 1
  /\ FillsItsField
  /\ StringStart + view.value.field.array_length = Len(view.value.backing)
  /\ Len(view.value.backing) \in result.out.reads

\* what holds: the length is the one of the claim whenever as<string>()
\* returns, no byte behind index max_len is read, and the byte at index
\* max_len is read only when the field holds no zero
C38_StrnlenLength ==
  CharArrayDecoded =>
    /\ result.out.reads \subseteq
         StringStart..(StringStart + view.value.field.array_length)
    /\ ~FillsItsField =>
         result.out.reads \subseteq
           StringStart..(StringStart + view.value.field.array_length - 1)
    /\ (result.out.exc = "none" /\ result.T.shape = "string") =>
         result.out.res =
           UpToNul(view.value, 0, view.value.field.array_length)

=============================================================================
